---- MODULE Spec2Model ----
(***************************************************************************)
(* A model of the Cloudfen (sheep) behaviour engine of the Touch Sheep     *)
(* demo: src/js/main.js, class Cloudfen, and the game controller that      *)
(* drives it (src/unnamed/part_005, class TouchSheepGame).                 *)
(*                                                                         *)
(* Numbers.  Scalars in [0,1] (happiness, mood, personality, tiredness,    *)
(* playerAwareness, Math.random()) are fixed-point integers with U = 1.0.  *)
(* Times are integer milliseconds.  Lengths are integer millimetres        *)
(* (1000 = 1 world unit).  A rate "x per second" applied over dt is        *)
(* (rate * dt) \div 1000.                                                   *)
(*                                                                         *)
(* Math.random() is a real in [0,1): a comparison Math.random() < p can    *)
(* come out TRUE exactly when p > 0 and FALSE exactly when p < 1.  RandLt  *)
(* and RandGt give the set of outcomes the comparison can have.            *)
(***************************************************************************)
EXTENDS Integers, Sequences, FiniteSets, TLC

VARIABLES
    cf,        \* the creature: the fields of one Cloudfen object
    player,    \* the player snapshot handed to update(): NoPlayer or [dist, running]
    stroking,  \* the game strokes the creature every frame (isPetting && canInteract)
    timers,    \* pending setTimeout callbacks of this creature: <<[kind, left]>>
    op,        \* the handler that took the last step
    ticks,     \* number of update() calls so far
    events,    \* number of external handler calls so far
    phys,      \* the creature on the ground: positions, velocities, and where
               \* update() is in its physics (used by SpecPhys only)
    call,      \* one onCalled in space: the source, the creature's position
               \* and the target the callback sets (used by SpecCall only)
    game       \* the part of the game around the creatures that a
               \* specification of the game itself follows (GameOff elsewhere)

behVars == <<cf, player, stroking, timers, op, ticks, events, phys, call, game>>

GameOff == [pc |-> "off"]

(* ------------------------------ bounds ------------------------------- *)

MaxTicks == 10
MaxEvents == 2
MaxTimers == 2

(* --------------------------- number helpers -------------------------- *)

U == 10000

Min(a, b) == IF a < b THEN a ELSE b
Max(a, b) == IF a > b THEN a ELSE b

\* rate (fixed-point units per second) applied over dt milliseconds
PerSec(rate, dt) == (rate * dt) \div 1000

\* Math.random() < p
RandLt(p) == {b \in BOOLEAN : (b => p > 0) /\ (~b => p < U)}
\* Math.random() > p
RandGt(p) == {b \in BOOLEAN : (b => p < U - 1) /\ (~b => p >= 0)}

\* a + Math.random() * w: the two ends of the range
RandSpan(a, w) == {a, a + w - 1}

\* UNION {F(x) : x \in S}: run F on every outcome of a nondeterministic step
Bind(S, F(_)) == UNION {F(x) : x \in S}

(* ------------------------------ states ------------------------------- *)

Cloudfen_STATE == {"idle", "grazing", "looking", "stretching", "resting", "sleeping",
          "social", "curious", "petted", "bliss", "called", "fleeing"}

\* setState without the stateTimer reset
setStateKeepTimer(s, newState) ==
    IF s.state = newState THEN s
    ELSE [s EXCEPT !.previousState = s.state, !.state = newState]

(* Cloudfen.setState *)
setState(s, newState) ==
    IF s.state = newState THEN s
    ELSE [s EXCEPT !.previousState = s.state, !.state = newState, !.stateTimer = 0]

(* Cloudfen._standUp *)
_standUp(s) == [s EXCEPT !.isLyingDown = FALSE, !.lyingDownProgress = 0]

(* ------------------------ interaction handlers ----------------------- *)

\* a hover that makes the creature a little less shy
onHoverStartLessShy(s) ==
    IF s.state \in {"bliss", "fleeing"} THEN s
    ELSE [s EXCEPT !.isHovered = TRUE, !.hoverTime = 0, !.shyness = Max(0, @ - 500)]

(* Cloudfen.onHoverStart *)
onHoverStart(s) ==
    IF s.state \in {"bliss", "fleeing"} THEN s
    ELSE [s EXCEPT !.isHovered = TRUE, !.hoverTime = 0]

(* Cloudfen.onHoverEnd *)
onHoverEnd(s) == [s EXCEPT !.isHovered = FALSE, !.hoverTime = 0]

\* Math.min(speed * 0.02, 0.15) * friendliness
strokeBonus(s, speed) == (Min(speed * 200, 1500) * s.friendliness) \div U

\* onStroke without the Math.min(1, ...) cap
onStrokeUncapped(s, speed) ==
    IF ~s.isPetted THEN s
    ELSE [s EXCEPT !.sinceStroke = 0, !.happiness = s.happiness + strokeBonus(s, speed)]

(* Cloudfen.onStroke: dx = dy = 0 at the only call site, so the velocity     *)
(* nudge is zero.  sinceStroke is Date.now() - lastStrokeTime.               *)
onStroke(s, speed) ==
    IF ~s.isPetted THEN s
    ELSE [s EXCEPT !.sinceStroke = 0,
                   !.happiness = Min(U, s.happiness + strokeBonus(s, speed))]

(* Cloudfen.startPetting *)
startPetting(s) ==
    LET s1 == [s EXCEPT !.isPetted = TRUE, !.sinceStroke = 0,
                        !.timesBeenPetted = s.timesBeenPetted + 1]
        s2 == IF s1.state # "bliss" THEN setState(s1, "petted") ELSE s1
    IN [s2 EXCEPT !.contentment = Min(U, s2.contentment + 2000),
                  !.playfulness = Min(U, s2.playfulness + 1000)]

(* Cloudfen.endPetting: the creature's part; the 1000 ms callback is         *)
(* scheduled by the EndPetting action.                                       *)
endPetting(s) ==
    LET s1 == [s EXCEPT !.isPetted = FALSE]
    IN IF s1.state = "bliss" THEN [s1 EXCEPT !.stateTimer = 0] ELSE s1

\* the callback endPetting schedules
endPettingTimeout(s) ==
    IF s.state = "petted" THEN setState(s, "idle") ELSE s

(* Cloudfen.onCalled: the synchronous part *)
onCalledGuard(s) == s.state \notin {"bliss", "fleeing"}

onCalled(s) ==
    IF s.state \in {"sleeping", "resting"} THEN _standUp(s) ELSE s

\* Math.min(distance * 80, 400), distance in millimetres
calledDelay(distance) == Min((distance * 80) \div 1000, 400)

\* the approach target is source - normalize(dir) * comfortDistance, dir the
\* vector from the creature to the source when onCalled ran: along that line it
\* is |distance - comfortDistance| away from where the creature then stood
comfortDistance == 4000

Abs(x) == IF x < 0 THEN -x ELSE x

calledTargetDist(distance) == IF distance = 0 THEN 0 ELSE Abs(distance - comfortDistance)

\* the callback onCalled schedules
onCalledTimeout(s, targetDist) ==
    {IF b THEN [setState(s, "called") EXCEPT !.target = targetDist]
          ELSE setState(s, "curious") : b \in RandGt(s.shyness \div 2)}

\* a peer's _updateSocial reaching this creature (the peer is within 1.8 units
\* and has this creature as its socialTarget)
peerSocialTrigger(s) ==
    IF s.state = "idle"
    THEN setState([s EXCEPT !.hasSocialTarget = TRUE], "social")
    ELSE s


(* ------------------------------ geometry ----------------------------- *)

RECURSIVE SqrtBetween(_, _, _)
SqrtBetween(n, lo, hi) ==
    IF lo >= hi THEN lo
    ELSE LET mid == (lo + hi + 1) \div 2
         IN IF mid * mid <= n THEN SqrtBetween(n, mid, hi)
                              ELSE SqrtBetween(n, lo, mid - 1)

\* floor(Math.sqrt(n)) for 0 <= n < 2^31
Isqrt(n) == SqrtBetween(n, 0, 46340)

(* ------------------------------ the player --------------------------- *)

NoPlayer == [present |-> FALSE, dist |-> 0, running |-> FALSE]

\* TouchSheepGame.player.eyeHeight: the snapshot's position is the camera's,
\* this far above the ground the creature stands on
EyeHeight == 1000

\* the horizontal distances the model draws the player's position from
PlayerDists == {1500, 3500, 9000}

PlayerInfos ==
    {NoPlayer} \cup [present : {TRUE}, dist : PlayerDists, running : {FALSE}]
               \cup [present : {TRUE}, dist : {1500}, running : {TRUE}]

\* toPlayer.length() after toPlayer.y = 0
HDist(p) == p.dist
\* this.position.distanceTo(playerPosition): the 3-D distance
Dist3(p) == Isqrt(p.dist * p.dist + EyeHeight * EyeHeight)

(* ------------------------------- update ------------------------------ *)

\* x > a + Math.random() * w
GtRandSpan(x, a, w) == {b \in BOOLEAN : (b => x > a) /\ (~b => x < a + w)}

\* targetPosition: NoTarget is null, otherwise the horizontal distance to it
NoTarget == -1

\* the creature heads for its target at `speed` (mm/s) and _applyPhysics moves
\* it speed * dt along the line to it (no collision on the way)
Approach(s, speed, dt) ==
    {[s EXCEPT !.target = Abs(s.target - PerSec(speed, dt))]}

(* Cloudfen._updatePlayerAwareness.  isPlayerRunning is speed > 3 of        *)
(* game.player.velocity; p.running stands for it.                           *)
\* a flee check that leaves every creature lying down alone
canFleeStanding(s) == s.state \notin {"petted", "bliss", "sleeping", "resting"}

canFlee(s) == s.state \notin {"petted", "bliss", "sleeping"}

fleeThreshold == 2500

fleeTriggered(s, p) == HDist(p) < fleeThreshold /\ p.running /\ canFlee(s)

\* a flee target under one unit away
fleeTargetDistsShort(p) == {500}

\* targetPosition = position + fleeDir * (8 + Math.random() * 5); at distance 0
\* normalize() leaves the zero vector and the target is the position itself
fleeTargetDists(p) == IF HDist(p) > 0 THEN RandSpan(8000, 5000) ELSE {0}

\* an awareness update that takes a missing snapshot for a player far away
_updatePlayerAwarenessUnguarded(s, dt, p) ==
    {[s EXCEPT !.playerAwareness =
          IF p.present /\ HDist(p) < 8000
          THEN Min(U, @ + PerSec(5000, dt))
          ELSE Max(0, @ - PerSec(2000, dt))]}

_updatePlayerAwareness(s, dt, p) ==
    IF ~p.present THEN {s}
    ELSE
      LET afterFlee ==
            IF fleeTriggered(s, p)
            THEN LET s1 == IF s.state = "resting" THEN _standUp(s) ELSE s
                 IN UNION {IF b THEN {[setState(s1, "fleeing") EXCEPT !.target = d]
                                        : d \in fleeTargetDists(p)}
                                ELSE {s1} : b \in RandLt(s.flightiness)}
            ELSE {s}
      IN {[t EXCEPT !.playerAwareness =
                IF HDist(p) < 8000
                THEN Min(U, t.playerAwareness + PerSec(5000, dt))
                ELSE Max(0, t.playerAwareness - PerSec(2000, dt))] : t \in afterFlee}

(* Cloudfen._updateMood *)
_updateMood(s, dt, p) ==
    LET c1 == IF s.state \in {"resting", "sleeping"}
              THEN Min(U, s.contentment + PerSec(200, dt)) ELSE s.contentment
        c2 == IF s.happiness > 5000 THEN Min(U, c1 + PerSec(500, dt)) ELSE c1
        c3 == IF s.state = "fleeing" THEN Max(0, c2 - PerSec(1000, dt)) ELSE c2
        c4 == c3 + ((5000 - c3) * dt) \div 100000
        a1 == IF ~p.present THEN s.alertness
              ELSE IF Dist3(p) < 5000
                   THEN Min(U, s.alertness + PerSec(1000, dt))
                   ELSE Max(2000, s.alertness - PerSec(500, dt))
        p1 == IF s.timesBeenPetted > 2
              THEN Min(8000, s.playfulness + PerSec(100, dt)) ELSE s.playfulness
        p2 == IF s.tiredness > 6000 THEN Max(0, p1 - PerSec(200, dt)) ELSE p1
    IN [s EXCEPT !.contentment = c4, !.alertness = a1, !.playfulness = p2]

(* Cloudfen._updateAttention: the part the state machine reads *)
_updateAttention(s) ==
    IF s.state \in {"resting", "sleeping"} THEN [s EXCEPT !.hasFavoriteSpot = TRUE]
    ELSE s

(* Cloudfen._pickLookTarget: lookTimer = 2 + Math.random() * 3 *)
_pickLookTarget(s) == {[s EXCEPT !.lookTimer = d] : d \in RandSpan(2000, 3000)}

\* favoriteSpot && position.distanceTo(favoriteSpot) > 3 : targetPosition = favoriteSpot
goToFavoriteSpot(s) ==
    IF s.hasFavoriteSpot THEN {s, [s EXCEPT !.target = 3500]}
    ELSE {s}

\* the roll of _chooseNextBehavior
Rolls == {0, 500, 1000, 1500, 2000, 2500, 3000, 3500, 4000, 4500, 5000,
          5500, 6000, 6500, 7000, 7500, 8000, 8500, 9000, 9500, 9999}

(* Cloudfen._chooseWanderTarget: every branch sets a new targetPosition, 2 to *)
(* 10 units away                                                             *)
_chooseWanderTarget(s) == {[s EXCEPT !.target = d] : d \in {2000, 6000}}

\* a rest-first test no tiredness passes
restThresholdFull == U

restThreshold == 7000

(* Cloudfen._chooseNextBehavior *)
_chooseNextBehavior(s, p) ==
    LET restFirst == IF s.tiredness > restThreshold THEN RandLt(s.tiredness) ELSE {FALSE}
        modGraze == U + ((s.contentment - 5000) * 3) \div 10
        modSocial == U + s.playfulness \div 2
        modLook == U + (s.alertness * 4) \div 10
        modRest == U + ((U - s.playfulness) * 3) \div 10
        playerNearby == p.present /\ Dist3(p) < 8000
        socialW == (1000 * modSocial) \div U
        grazeW == LET w == (3000 * modGraze) \div U
                  IN IF playerNearby THEN w \div 2 ELSE w
        lookW == LET w == (1500 * modLook) \div U
                 IN IF playerNearby THEN (w * 3) \div 2 ELSE w
        stretchW == IF s.previousState \in {"resting", "sleeping"} THEN 1500 ELSE 500
        restW == (1500 * modRest) \div U
        \* a peer within 6 units, Date.now() - lastSocialTime > 10000 and the
        \* sociability roll: the peers and the wall clock are the environment
        socialOpen == {FALSE} \cup RandLt((s.sociability * modSocial) \div U)
        Pick(roll, soc) ==
            LET c0 == IF soc THEN socialW ELSE 0
                c1 == c0 + grazeW
                c2 == c1 + lookW
                c3 == c2 + stretchW
                c4 == c3 + restW
            IN IF soc /\ roll < c0
               THEN {setState([s EXCEPT !.hasSocialTarget = TRUE], "social")}
               ELSE IF roll < c1
               THEN {setState([s EXCEPT !.grazeDuration = d], "grazing")
                       : d \in RandSpan(3000, 5000)}
               ELSE IF roll < c2
               THEN {setState(t, "looking") : t \in _pickLookTarget(s)}
               ELSE IF roll < c3
               THEN {setState([s EXCEPT !.stretchProgress = 0], "stretching")}
               ELSE IF roll < c4 /\ s.tiredness > 3000
               THEN {setState(t, "resting") : t \in goToFavoriteSpot(s)}
               ELSE _chooseWanderTarget(s)
    IN UNION {IF rf THEN {setState(t, "resting") : t \in goToFavoriteSpot(s)}
                    ELSE UNION {Pick(roll, soc) : roll \in Rolls, soc \in socialOpen}
              : rf \in restFirst}


(* --------------------------- per-state updates ----------------------- *)

wanderSpeed == 800
approachSpeed == 1500
fleeSpeed == 4000

\* _updateIdle, from the idleTimer check on
idleWander(s, dt, p) ==
    IF s.idleTimer >= s.nextWanderTime
    THEN \* nextWanderTime = (1.5 + Math.random() * 2.5) * (1 + laziness * 0.3)
         UNION {_chooseNextBehavior(
                    [s EXCEPT !.idleTimer = 0,
                              !.nextWanderTime = (b * (U + (s.laziness * 3) \div 10)) \div U], p)
                : b \in RandSpan(1500, 2500)}
    ELSE IF s.target # NoTarget
    THEN IF s.target > 300
         THEN Approach(s, (wanderSpeed * (9000 + s.playfulness \div 5)) \div U, dt)
         ELSE LET s1 == [s EXCEPT !.target = NoTarget]
              IN {s1} \cup {setState(t, "looking") : t \in _pickLookTarget(s1)}
    ELSE {s}

(* Cloudfen._updateIdle *)
_updateIdle(s0, dt, p) ==
    LET s == [s0 EXCEPT !.idleTimer = s0.idleTimer + dt]
    IN IF s.isHovered /\ s.hoverTime > 1500 /\ s.playerAwareness > 3000
       THEN {setState(s, "curious")}
       ELSE IF p.present /\ s.playerAwareness > 5000
               /\ s.timesBeenPetted > 0 /\ Dist3(p) < 6000
       THEN \* Math.random() < 0.01
            {setState(t, "looking") : t \in _pickLookTarget(s)} \cup idleWander(s, dt, p)
       ELSE idleWander(s, dt, p)

(* Cloudfen._updateGrazing *)
_updateGrazing(s0, dt, p) ==
    LET s == [s0 EXCEPT !.grazingTimer = s0.grazingTimer + dt]
    IN IF p.present /\ Dist3(p) < 3000 THEN {setState(s, "curious")}
       ELSE IF s.grazingTimer >= s.grazeDuration
       THEN {setState([s EXCEPT !.grazingTimer = 0], "idle")}
       ELSE {s}

(* Cloudfen._updateLooking *)
_updateLooking(s0, dt, p) ==
    LET s == [s0 EXCEPT !.lookTimer = s0.lookTimer - dt]
        s1 == IF s.lookTimer <= 0 THEN setState(s, "idle") ELSE s
    IN {IF s1.isHovered /\ s1.hoverTime > 1000 THEN setState(s1, "curious") ELSE s1}

(* Cloudfen._updateStretching *)
_updateStretching(s0, dt, p) ==
    LET s == [s0 EXCEPT !.stretchProgress = s0.stretchProgress + dt]
        s1 == IF s.stretchProgress >= 2500
              THEN setState([s EXCEPT !.stretchProgress = 0], "idle") ELSE s
    IN {IF s1.isHovered /\ s1.hoverTime > 500
        THEN setState([s1 EXCEPT !.stretchProgress = 0], "curious") ELSE s1}

(* Cloudfen._updateResting *)
_updateResting(s0, dt, p) ==
    LET lp == Min(U, s0.lyingDownProgress + PerSec(8000, dt))
        s1 == IF ~s0.isLyingDown
              THEN [s0 EXCEPT !.lyingDownProgress = lp, !.isLyingDown = (lp >= U)]
              ELSE s0
        s == [s1 EXCEPT !.tiredness = Max(0, s1.tiredness - PerSec(300, dt))]
        awake ==
            IF p.present /\ Dist3(p) < 4000 /\ s.playerAwareness > 5000
            THEN {setState(_standUp(s), "curious")}
            ELSE {IF b /\ s.tiredness < 4000 THEN setState(_standUp(s), "idle") ELSE s
                    : b \in GtRandSpan(s.stateTimer, 8000, 5000)}
    IN IF s.tiredness < 2000 /\ s.stateTimer > 5000
       THEN {setState(s, "sleeping")} \cup awake      \* Math.random() < 0.01
       ELSE awake

\* a sleep that the player does not disturb
_updateSleepingDeep(s0, dt, p) ==
    LET s == [s0 EXCEPT !.sleepTimer = s0.sleepTimer + dt,
                        !.isLyingDown = TRUE, !.lyingDownProgress = U,
                        !.tiredness = Max(0, s0.tiredness - PerSec(500, dt))]
    IN {IF b /\ s.tiredness < 1000
        THEN setState([_standUp(s) EXCEPT !.sleepTimer = 0, !.stretchProgress = 0],
                      "stretching")
        ELSE s : b \in GtRandSpan(s.sleepTimer, 10000, 10000)}

(* Cloudfen._updateSleeping *)
_updateSleeping(s0, dt, p) ==
    LET s == [s0 EXCEPT !.sleepTimer = s0.sleepTimer + dt,
                        !.isLyingDown = TRUE, !.lyingDownProgress = U,
                        !.tiredness = Max(0, s0.tiredness - PerSec(500, dt))]
    IN IF p.present /\ Dist3(p) < 3000 /\ (Dist3(p) < 2000 \/ s.isHovered)
       THEN {setState(_standUp(s), "curious")}
       ELSE {IF b /\ s.tiredness < 1000
             THEN setState([_standUp(s) EXCEPT !.sleepTimer = 0, !.stretchProgress = 0],
                           "stretching")
             ELSE s : b \in GtRandSpan(s.sleepTimer, 10000, 10000)}

(* Cloudfen._updateSocial.  socialTarget.mesh is set for every creature in   *)
(* game.cloudfens (a creature joins the list after init), so the first test  *)
(* is on socialTarget alone.  What it does to the peer is the peer's         *)
(* peerSocialTrigger.                                                        *)
_updateSocial(s0, dt, p) ==
    LET s == [s0 EXCEPT !.socialTimer = s0.socialTimer + dt]
    IN IF ~s.hasSocialTarget THEN {setState(s, "idle")}
       ELSE UNION {
              LET s1 == IF b
                        THEN {setState([s EXCEPT !.socialTimer = 0, !.hasSocialTarget = FALSE,
                                                 !.grazeDuration = d], "grazing")
                                : d \in RandSpan(3000, 3000)}
                             \cup {setState([s EXCEPT !.socialTimer = 0,
                                                      !.hasSocialTarget = FALSE], "idle")}
                        ELSE {s}
              IN {IF t.isHovered /\ t.hoverTime > 1500
                  THEN setState([t EXCEPT !.hasSocialTarget = FALSE], "curious")
                  ELSE t : t \in s1}
              : b \in GtRandSpan(s.socialTimer, 4000, 3000)}

(* Cloudfen._updateCurious *)
_updateCurious(s, dt, p) ==
    {IF ~s.isHovered /\ s.stateTimer > 4000 THEN setState(s, "idle") ELSE s}

\* a petted update that does not wait for the state timer
_updatePettedNoTimer(s, dt, p) ==
    LET s1 == IF s.happiness > 8000 /\ s.isPetted
              THEN setState(s, "bliss") ELSE s
    IN {IF s1.isPetted /\ s1.sinceStroke > 300
        THEN [s1 EXCEPT !.happiness = Min(U, s1.happiness + PerSec(1500, dt))]
        ELSE s1}

(* Cloudfen._updatePetted *)
_updatePetted(s, dt, p) ==
    LET s1 == IF s.happiness > 8000 /\ s.isPetted /\ s.stateTimer > 2000
              THEN setState(s, "bliss") ELSE s
    IN {IF s1.isPetted /\ s1.sinceStroke > 300
        THEN [s1 EXCEPT !.happiness = Min(U, s1.happiness + PerSec(1500, dt))]
        ELSE s1}

\* a bliss that falls back to petted when it runs out
_updateBlissToPetted(s, dt, p) ==
    {IF ~s.isPetted /\ s.stateTimer > 3000
     THEN [setState(s, "petted") EXCEPT !.happiness = 3000] ELSE s}

(* Cloudfen._updateBliss *)
_updateBliss(s, dt, p) ==
    {IF ~s.isPetted /\ s.stateTimer > 3000
     THEN [setState(s, "idle") EXCEPT !.happiness = 3000] ELSE s}

(* Cloudfen._updateCalled *)
_updateCalled(s, dt, p) ==
    IF s.target # NoTarget
    THEN IF s.target > 800 THEN Approach(s, approachSpeed, dt)
         ELSE {setState([s EXCEPT !.target = NoTarget], "curious")}
    ELSE {setState(s, "idle")}

\* a flight that ends only at its target
_updateFleeingNoTimeout(s, dt, p) ==
    IF s.target # NoTarget
    THEN IF s.target > 1000 THEN Approach(s, fleeSpeed, dt)
         ELSE {setState([s EXCEPT !.target = NoTarget], "idle")}
    ELSE {setState(s, "idle")}

(* Cloudfen._updateFleeing *)
_updateFleeing(s, dt, p) ==
    LET moved == IF s.target # NoTarget
                 THEN IF s.target > 1000 THEN Approach(s, fleeSpeed, dt)
                      ELSE {setState([s EXCEPT !.target = NoTarget], "idle")}
                 ELSE {setState(s, "idle")}
    IN {IF t.stateTimer > 3000 THEN setState(t, "idle") ELSE t : t \in moved}

\* the switch of update()
updateState(s, dt, p) ==
    CASE s.state = "idle" -> _updateIdle(s, dt, p)
      [] s.state = "grazing" -> _updateGrazing(s, dt, p)
      [] s.state = "looking" -> _updateLooking(s, dt, p)
      [] s.state = "stretching" -> _updateStretching(s, dt, p)
      [] s.state = "resting" -> _updateResting(s, dt, p)
      [] s.state = "sleeping" -> _updateSleeping(s, dt, p)
      [] s.state = "social" -> _updateSocial(s, dt, p)
      [] s.state = "curious" -> _updateCurious(s, dt, p)
      [] s.state = "petted" -> _updatePetted(s, dt, p)
      [] s.state = "bliss" -> _updateBliss(s, dt, p)
      [] s.state = "called" -> _updateCalled(s, dt, p)
      [] s.state = "fleeing" -> _updateFleeing(s, dt, p)

\* Date.now() - lastStrokeTime is only compared with 300: the model stops
\* counting it here
StrokeIdleCap == 1000

\* the head of update(): stateTimer, hoverTime and the happiness decay.  The
\* wall clock (Date.now(), setTimeout) runs with the game clock: no frame is
\* longer than the 0.1 s cap on dt.
updateTimers(s, dt) ==
    [s EXCEPT !.stateTimer = s.stateTimer + dt,
              !.sinceStroke = Min(StrokeIdleCap, s.sinceStroke + dt),
              !.hoverTime = IF s.isHovered THEN s.hoverTime + dt ELSE s.hoverTime,
              !.happiness = IF ~s.isPetted THEN Max(0, s.happiness - PerSec(800, dt))
                            ELSE s.happiness]

\* tiredness = Math.min(1, tiredness + dt * 0.005 * laziness)
updateTiredness(s, dt) ==
    IF s.state \notin {"resting", "sleeping"}
    THEN [s EXCEPT !.tiredness = Min(U, s.tiredness + (50 * dt * s.laziness) \div (1000 * U))]
    ELSE s

(* Cloudfen.update: the set of creatures one call can leave behind.  The     *)
(* presentation layer (_updateVisuals, the micro-behaviour flags, the        *)
(* attention target) is written by update and read by nothing here.          *)
update(s, dt, p) ==
    LET A == _updatePlayerAwareness(updateTimers(s, dt), dt, p)
        B == {updateTiredness(_updateAttention(_updateMood(t, dt, p)), dt) : t \in A}
    IN UNION {updateState(t, dt, p) : t \in B}


(* ----------------------------- construction -------------------------- *)

\* the value every Math.random() of the constructor returns, for the
\* creatures the model starts from
InitRolls == {0, 9999}

\* a + Math.random() * w with Math.random() = r
Draw(a, w, r) == a + (w * r) \div U

(* Cloudfen.constructor *)
newCloudfen(r) ==
    [state |-> "idle", stateTimer |-> 0, previousState |-> "none",
     idleTimer |-> 0, nextWanderTime |-> Draw(500, 2000, r),
     grazingTimer |-> 0, grazeDuration |-> 0,
     tiredness |-> Draw(0, 3000, r), sleepTimer |-> 0,
     isLyingDown |-> FALSE, lyingDownProgress |-> 0,
     lookTimer |-> 0, hasSocialTarget |-> FALSE, socialTimer |-> 0,
     stretchProgress |-> 0,
     happiness |-> 0, isPetted |-> FALSE, timesBeenPetted |-> 0,
     sinceStroke |-> StrokeIdleCap,
     isHovered |-> FALSE, hoverTime |-> 0,
     playerAwareness |-> 0, target |-> NoTarget, hasFavoriteSpot |-> FALSE,
     shyness |-> Draw(3000, 4000, r), friendliness |-> Draw(5000, 5000, r),
     curiosity |-> Draw(3000, 5000, r), flightiness |-> Draw(2000, 4000, r),
     laziness |-> Draw(2000, 5000, r), sociability |-> Draw(3000, 6000, r),
     contentment |-> Draw(5000, 3000, r), alertness |-> Draw(3000, 2000, r),
     playfulness |-> Draw(0, 5000, r)]

(* ------------------------------ physics ------------------------------ *)

\* positions and velocities are <<x, z>> in mm and mm/s
PhysOff == [pc |-> "off", pos |-> <<0, 0>>, vel |-> <<0, 0>>, other |-> <<0, 0>>,
            ball |-> <<0, 0>>, ballVel |-> <<0, 0>>]

\* const bounds = 25
bounds == 25000

\* Math.max(-bounds, Math.min(bounds, v))
Clamp(v) == Max(-bounds, Min(bounds, v))

\* 0.8 * baseScale and 0.9 * baseScale at baseScale 1.0; MossBall.radius at scale 1.0
sheepRadius == 800
ballSheepRadius == 900
ballRadius == 600

\* Math.sqrt(dx * dx + dz * dz); the callers compare it with under 4 units, and
\* anything 5 units off on an axis is read as 5 units away
Far(dx, dz) == Abs(dx) >= 5000 \/ Abs(dz) >= 5000
Length(dx, dz) == IF Far(dx, dz) THEN 5000 ELSE Isqrt(dx * dx + dz * dz)
\* dist < minDist
Within(dx, dz, minDist) == ~Far(dx, dz) /\ dx * dx + dz * dz < minDist * minDist

(* _applyPhysics, lines 1648-1656: integrate, clamp, damp *)
applyVelocity(ph, dt) ==
    [ph EXCEPT !.pos = <<Clamp(ph.pos[1] + PerSec(ph.vel[1], dt)),
                         Clamp(ph.pos[2] + PerSec(ph.vel[2], dt))>>,
               !.vel = <<(ph.vel[1] * 92) \div 100, (ph.vel[2] * 92) \div 100>>]

\* a collision step that pulls the creature toward the peer
collideCreaturesInward(ph) ==
    LET dx == ph.pos[1] - ph.other[1]
        dz == ph.pos[2] - ph.other[2]
        dist == Length(dx, dz)
        push == ((2 * sheepRadius - dist) * 4) \div 10
    IN IF Within(dx, dz, 2 * sheepRadius) /\ dist > 0
       THEN [ph EXCEPT !.pos = <<Clamp(ph.pos[1] - (dx * push) \div dist),
                                 Clamp(ph.pos[2] - (dz * push) \div dist)>>]
       ELSE ph

(* _applyPhysics, lines 1658-1686: the push off an overlapping peer, then the *)
(* second clamp                                                              *)
collideCreatures(ph) ==
    LET dx == ph.pos[1] - ph.other[1]
        dz == ph.pos[2] - ph.other[2]
        dist == Length(dx, dz)
        minDist == 2 * sheepRadius
        pushStrength == ((minDist - dist) * 4) \div 10
    IN IF Within(dx, dz, minDist) /\ dist > 0
       THEN [ph EXCEPT !.pos = <<Clamp(ph.pos[1] + (dx * pushStrength) \div dist),
                                 Clamp(ph.pos[2] + (dz * pushStrength) \div dist)>>,
                       !.vel = <<ph.vel[1] + (dx * 400) \div dist,
                                 ph.vel[2] + (dz * 400) \div dist>>]
       ELSE [ph EXCEPT !.pos = <<Clamp(ph.pos[1]), Clamp(ph.pos[2])>>]

(* TouchSheepScene._createRocks: the colliders, radius = scale * 0.9 *)
rockColliders ==
    << [x |-> -15000, z |-> 10000, radius |-> 2250],
       [x |-> 20000, z |-> -12000, radius |-> 1800],
       [x |-> -25000, z |-> -20000, radius |-> 2700],
       [x |-> 18000, z |-> 25000, radius |-> 1980],
       [x |-> -30000, z |-> 15000, radius |-> 1620],
       [x |-> 28000, z |-> 8000, radius |-> 2520],
       [x |-> -10000, z |-> -30000, radius |-> 1800],
       [x |-> 5000, z |-> 30000, radius |-> 1350] >>

NoRock == 0

(* TouchSheepScene.checkRockCollision: the first collider the circle touches *)
checkRockCollision(x, z, radius) ==
    LET hits == {i \in 1..Len(rockColliders) :
                    Within(x - rockColliders[i].x, z - rockColliders[i].z,
                           rockColliders[i].radius + radius)}
    IN IF hits = {} THEN NoRock ELSE CHOOSE i \in hits : \A j \in hits : i <= j

(* _applyPhysics, lines 1688-1711: out of the rock, and the bounce *)
collideRocks(ph) ==
    LET i == checkRockCollision(ph.pos[1], ph.pos[2], sheepRadius)
    IN IF i = NoRock THEN ph
       ELSE LET dx == ph.pos[1] - rockColliders[i].x
                dz == ph.pos[2] - rockColliders[i].z
                dist == Length(dx, dz)
                overlap == rockColliders[i].radius + sheepRadius - dist
                \* normalX, normalZ scaled by `den`
                nx == IF dist > 0 THEN dx ELSE 1
                nz == IF dist > 0 THEN dz ELSE 0
                den == IF dist > 0 THEN dist ELSE 1
                dotProduct == (ph.vel[1] * nx + ph.vel[2] * nz) \div den
            IN [ph EXCEPT
                  !.pos = <<ph.pos[1] + (nx * overlap) \div den,
                            ph.pos[2] + (nz * overlap) \div den>>,
                  !.vel = IF dotProduct < 0
                          THEN <<ph.vel[1] - (15 * dotProduct * nx) \div (10 * den),
                                 ph.vel[2] - (15 * dotProduct * nz) \div (10 * den)>>
                          ELSE ph.vel]

\* Math.sqrt(velocity.x ** 2 + velocity.z ** 2)
Speed(v) == Isqrt(v[1] * v[1] + v[2] * v[2])

\* the creature and the ball overlap: dist < minDist && dist > 0
ballHit(ph) ==
    /\ Within(ph.ball[1] - ph.pos[1], ph.ball[2] - ph.pos[2], ballSheepRadius + ballRadius)
    /\ ph.ball # ph.pos

\* a ball collision that pushes the ball and leaves the creature alone
_handleMossBallCollisionBallOnly(ph) ==
    LET dx == ph.ball[1] - ph.pos[1]
        dz == ph.ball[2] - ph.pos[2]
        dist == Length(dx, dz)
        pushForce == Max(800, (Speed(ph.vel) * 6) \div 10)
    IN IF ballHit(ph)
       THEN [ph EXCEPT !.ballVel = <<ph.ballVel[1] + (dx * pushForce * 3) \div dist,
                                     ph.ballVel[2] + (dz * pushForce * 3) \div dist>>]
       ELSE ph

(* Cloudfen._handleMossBallCollision with MossBall.push (pushMultiplier 3.0) *)
_handleMossBallCollision(ph) ==
    LET dx == ph.ball[1] - ph.pos[1]
        dz == ph.ball[2] - ph.pos[2]
        dist == Length(dx, dz)
        minDist == ballSheepRadius + ballRadius
        sheepSpeed == Speed(ph.vel)
        pushForce == Max(800, (sheepSpeed * 6) \div 10)
        overlap == minDist - dist
    IN IF ballHit(ph)
       THEN [ph EXCEPT
               !.ballVel = <<ph.ballVel[1] + (dx * pushForce * 3) \div dist,
                             ph.ballVel[2] + (dz * pushForce * 3) \div dist>>,
               !.pos = <<ph.pos[1] - (dx * overlap * 3) \div (10 * dist),
                         ph.pos[2] - (dz * overlap * 3) \div (10 * dist)>>,
               !.vel = <<ph.vel[1] - (dx * 500) \div dist,
                         ph.vel[2] - (dz * 500) \div dist>>]
       ELSE ph

(* --------------------------- onCalled in space ------------------------ *)

\* vectors are <<x, y, z>> in mm
CallOff == [pc |-> "off", source |-> <<0, 0, 0>>, position |-> <<0, 0, 0>>,
            target |-> <<0, 0, 0>>]

\* Vector3.length()
Length3(v) == Isqrt(v[1] * v[1] + v[2] * v[2] + v[3] * v[3])

\* an approach target with the offset left out
calledTargetAtSource(sourcePosition, position) ==
    <<sourcePosition[1], 0, sourcePosition[3]>>

(* the targetPosition the callback of onCalled sets: the source with y = 0,   *)
(* less comfortDistance along dir = source - position as onCalled saw it;    *)
(* normalize() leaves a zero dir as it is                                     *)
calledTarget(sourcePosition, position) ==
    LET dir == <<sourcePosition[1] - position[1], sourcePosition[2] - position[2],
                 sourcePosition[3] - position[3]>>
        len == Length3(dir)
    IN IF len = 0 THEN <<sourcePosition[1], 0, sourcePosition[3]>>
       ELSE <<sourcePosition[1] - (dir[1] * comfortDistance) \div len,
              0 - (dir[2] * comfortDistance) \div len,
              sourcePosition[3] - (dir[3] * comfortDistance) \div len>>

(* ------------------------------- actions ----------------------------- *)

\* TouchSheepGame._gameLoop: dt = Math.min(delta, 0.1), in milliseconds
Dt == 100

\* TouchSheepGame._updateInteraction: hoveredSheep.onStroke(0, 0, 5)
StrokeSpeed == 5

\* distances between the creature and the caller when onCalled runs
CallDists == {2000, 9000}

\* setTimeout(f, delay): f runs once `delay` has passed, between two frames:
\* after the update that brings `left` under one dt and before the next one.
Schedule(ts, kind, delay, d) == Append(ts, [kind |-> kind, left |-> delay, d |-> d])

Remove(ts, i) == [j \in 1..(Len(ts) - 1) |-> IF j < i THEN ts[j] ELSE ts[j + 1]]

Step(name) == op' = name /\ events' = events + 1 /\ events < MaxEvents

(* TouchSheepGame._update, for this creature: _updateInteraction strokes it  *)
(* while the petting gesture is on it, then update(dt, playerInfo) runs.      *)
Update ==
    /\ ticks < MaxTicks
    /\ \A i \in 1..Len(timers) : timers[i].left >= Dt
    /\ cf' \in update(IF stroking THEN onStroke(cf, StrokeSpeed) ELSE cf, Dt, player)
    /\ timers' = [i \in 1..Len(timers) |-> [timers[i] EXCEPT !.left = @ - Dt]]
    /\ ticks' = ticks + 1
    /\ op' = "update"
    /\ UNCHANGED <<player, stroking, events, phys, call, game>>

\* _tryPetSheep (strokes follow every frame) or _onTapToPet (none do)
StartPetting ==
    /\ Step("startPetting")
    /\ cf' = startPetting(cf)
    /\ stroking' \in BOOLEAN
    /\ UNCHANGED <<player, timers, ticks, phys, call, game>>

\* the crosshair leaves the creature while the button is held: the strokes
\* stop (or go to another creature) and no handler of this creature runs
StrokingEnds ==
    /\ stroking
    /\ Step("strokingEnds")
    /\ stroking' = FALSE
    /\ UNCHANGED <<cf, player, timers, ticks, phys, call, game>>

EndPetting ==
    /\ Step("endPetting")
    /\ cf' = endPetting(cf)
    /\ stroking' = FALSE
    /\ IF cf.state = "petted"
       THEN Len(timers) < MaxTimers /\ timers' = Schedule(timers, "endPetting", 1000, 0)
       ELSE timers' = timers
    /\ UNCHANGED <<player, ticks, phys, call, game>>

EndPettingTimeout ==
    \E i \in 1..Len(timers) :
        /\ timers[i].kind = "endPetting"
        /\ timers[i].left < Dt
        /\ cf' = endPettingTimeout(cf)
        /\ timers' = Remove(timers, i)
        /\ op' = "endPettingTimeout"
        /\ UNCHANGED <<player, stroking, ticks, events, phys, call, game>>

OnCalled ==
    \E distance \in CallDists :
        /\ Step("onCalled")
        /\ onCalledGuard(cf)
        /\ Len(timers) < MaxTimers
        /\ cf' = onCalled(cf)
        /\ timers' = Schedule(timers, "onCalled", calledDelay(distance),
                              calledTargetDist(distance))
        /\ UNCHANGED <<player, stroking, ticks, phys, call, game>>

OnCalledTimeout ==
    \E i \in 1..Len(timers) :
        /\ timers[i].kind = "onCalled"
        /\ timers[i].left < Dt
        /\ cf' \in onCalledTimeout(cf, timers[i].d)
        /\ timers' = Remove(timers, i)
        /\ op' = "onCalledTimeout"
        /\ UNCHANGED <<player, stroking, ticks, events, phys, call, game>>

OnHoverStart ==
    /\ Step("onHoverStart")
    /\ cf' = onHoverStart(cf)
    /\ UNCHANGED <<player, stroking, timers, ticks, phys, call, game>>

OnHoverEnd ==
    /\ Step("onHoverEnd")
    /\ cf.isHovered
    /\ cf' = onHoverEnd(cf)
    /\ UNCHANGED <<player, stroking, timers, ticks, phys, call, game>>

PeerSocialTrigger ==
    /\ Step("peerSocialTrigger")
    /\ cf' = peerSocialTrigger(cf)
    /\ UNCHANGED <<player, stroking, timers, ticks, phys, call, game>>

PlayerMove ==
    \E p \in PlayerInfos :
        /\ Step("playerMove")
        /\ p # player
        /\ player' = p
        /\ UNCHANGED <<cf, stroking, timers, ticks, phys, call, game>>

Init ==
    /\ cf \in {newCloudfen(r) : r \in InitRolls}
    /\ player = [present |-> TRUE, dist |-> 9000, running |-> FALSE]
    /\ stroking = FALSE
    /\ timers = <<>>
    /\ phys = PhysOff
    /\ call = CallOff
    /\ game = GameOff
    /\ op = "init"
    /\ ticks = 0
    /\ events = 0

Next ==
    \/ Update
    \/ StartPetting
    \/ EndPetting
    \/ EndPettingTimeout
    \/ OnCalled
    \/ OnCalledTimeout
    \/ OnHoverStart
    \/ OnHoverEnd
    \/ StrokingEnds
    \/ PeerSocialTrigger
    \/ PlayerMove

Spec == Init /\ [][Next]_behVars

(* ------------------- one step from any point of a life --------------- *)

\* where the player can stand: PlayerInfos, and running through the very spot
\* the creature stands on
StepPlayerInfos == PlayerInfos \cup {[present |-> TRUE, dist |-> 0, running |-> TRUE]}

\* a creature as personality roll `r` built it; "forced" is one whose
\* personality.flightiness a test set to 1.0 and whose tiredness and mood have
\* climbed to 1.0
Profiles == {"low", "high", "forced"}

profileRoll(pr) == IF pr = "low" THEN 0 ELSE 9999

\* the longest a state's timer can read when update() returns in that state
timerCap(st, t, base, petted) ==
    IF st = "idle" THEN Min(t, base.nextWanderTime - 50)
    ELSE IF st = "stretching" THEN Min(t, 2450)
    ELSE IF st = "petted" /\ ~petted THEN Max(t, 1000)
    ELSE t

(* A creature some way into its life: in state st for t ms, with the fields  *)
(* the state's entry and its updates have written by then.                   *)
midLife(pr, st, t0, petted, h, hovered, p) ==
    LET base == newCloudfen(profileRoll(pr))
        t == timerCap(st, t0, base, petted)
        lying == st = "sleeping" \/ (st = "resting" /\ t > 1250)
    IN [base EXCEPT
          !.state = st, !.stateTimer = t,
          !.previousState = (IF st = "idle" THEN "grazing"
                             ELSE IF st = "bliss" THEN "petted" ELSE "idle"),
          !.idleTimer = IF st = "idle" THEN t ELSE 0,
          !.grazingTimer = IF st = "grazing" THEN t ELSE 0,
          !.grazeDuration = IF st = "grazing" THEN 3000 ELSE 0,
          !.lookTimer = IF st = "looking" THEN 3000 - t ELSE 0,
          !.stretchProgress = IF st = "stretching" THEN t ELSE 0,
          !.sleepTimer = IF st = "sleeping" THEN t ELSE 0,
          !.socialTimer = IF st = "social" THEN t ELSE 0,
          !.hasSocialTarget = (st = "social"),
          !.isLyingDown = lying,
          !.lyingDownProgress = IF lying THEN U ELSE 0,
          !.target = IF st \in {"called", "fleeing"} THEN 5000 ELSE NoTarget,
          !.isPetted = petted,
          !.timesBeenPetted = IF petted \/ st \in {"petted", "bliss"} THEN 1 ELSE 0,
          !.happiness = h,
          !.isHovered = hovered, !.hoverTime = IF hovered THEN 1600 ELSE 0,
          !.playerAwareness = IF p.present /\ HDist(p) < 8000 THEN U ELSE 0,
          !.flightiness = IF pr = "forced" THEN U ELSE @,
          !.tiredness = IF pr = "forced" THEN U ELSE @,
          !.contentment = IF pr = "forced" THEN U ELSE @,
          !.alertness = IF pr = "forced" THEN U ELSE @,
          !.playfulness = IF pr = "forced" THEN U ELSE @]

\* the callbacks that can be pending: none, an onCalled about to fire, and,
\* for a creature endPetting left in petted, its 1000 ms callback
pendingTimers(st, petted) ==
    IF st = "petted" /\ ~petted
    THEN {<<[kind |-> "endPetting", left |-> 50, d |-> 0]>>}
    ELSE {<<>>, <<[kind |-> "onCalled", left |-> 60, d |-> 1000]>>}

\* one more handler runs: an update, or an external call
InitStep ==
    /\ player \in StepPlayerInfos
    /\ \E pr \in Profiles, st \in Cloudfen_STATE, t \in {0, 1950, 2950},
          petted \in BOOLEAN, h \in {0, 8500, U}, hovered \in BOOLEAN :
          /\ st = "bliss" => h > 8000     \* bliss starts above 0.8
          /\ cf = midLife(pr, st, t, petted, h, hovered, player)
          /\ timers \in pendingTimers(st, petted)
          /\ stroking \in (IF petted /\ hovered THEN BOOLEAN ELSE {FALSE})
    /\ op = "init"
    /\ phys = PhysOff
    /\ call = CallOff
    /\ game = GameOff
    /\ \E b \in BOOLEAN :
          /\ ticks = (IF b THEN MaxTicks - 1 ELSE MaxTicks)
          /\ events = (IF b THEN MaxEvents ELSE MaxEvents - 1)

SpecStep == InitStep /\ [][Next]_behVars

(* ---------------------- the creature on the ground -------------------- *)

\* where the creature stands: mid-field, on the east bound, near it, in two
\* corners, and against rocks 4 and 1
StartPositions == {<<0, 0>>, <<25000, 0>>, <<24800, 3000>>, <<-25000, -25000>>,
                   <<25000, 25000>>, <<19500, 25000>>, <<-13000, 10000>>}
\* where the peer and the ball are, from the creature
PeerOffsets == {<<3000, 0>>, <<1200, 0>>, <<-600, -800>>, <<-1590, 0>>, <<0, 0>>}
BallOffsets == {<<4000, 0>>, <<-500, 0>>, <<900, 1000>>, <<0, 0>>}
\* the velocity a state's update sets: at rest, fleeing east or south
\* (fleeSpeed), coming when called (approachSpeed), wandering (wanderSpeed)
Velocities == {<<0, 0>>, <<fleeSpeed, 0>>, <<0, -fleeSpeed>>, <<-1200, 900>>,
               <<wanderSpeed, 0>>}

PhysStep(from, to, name) ==
    /\ phys.pc = from
    /\ op' = name
    /\ UNCHANGED <<cf, player, stroking, timers, events, call, game>>

\* the state's update writes the velocity, or leaves it to the damping
SetVelocity ==
    /\ ticks < MaxTicks
    /\ PhysStep("state", "move", "setVelocity")
    /\ \E v \in Velocities \cup {phys.vel} : phys' = [phys EXCEPT !.pc = "move", !.vel = v]
    /\ ticks' = ticks

ApplyVelocity ==
    /\ PhysStep("move", "peers", "applyVelocity")
    /\ phys' = [applyVelocity(phys, Dt) EXCEPT !.pc = "peers"]
    /\ ticks' = ticks

CollideCreatures ==
    /\ PhysStep("peers", "rocks", "collideCreatures")
    /\ phys' = [collideCreatures(phys) EXCEPT !.pc = "rocks"]
    /\ ticks' = ticks

CollideRocks ==
    /\ PhysStep("rocks", "balls", "collideRocks")
    /\ phys' = [collideRocks(phys) EXCEPT !.pc = "balls"]
    /\ ticks' = ticks

\* the last step of update()
HandleMossBallCollision ==
    /\ PhysStep("balls", "state", "handleMossBallCollision")
    /\ phys' = [_handleMossBallCollision(phys) EXCEPT !.pc = "state"]
    /\ ticks' = ticks + 1

InitPhys ==
    /\ cf = newCloudfen(0)
    /\ player = NoPlayer
    /\ stroking = FALSE
    /\ timers = <<>>
    /\ op = "init"
    /\ ticks = MaxTicks - 2
    /\ call = CallOff
    /\ game = GameOff
    /\ events = MaxEvents
    /\ \E q \in StartPositions, o \in PeerOffsets, b \in BallOffsets :
          phys = [pc |-> "state", pos |-> q, vel |-> <<0, 0>>,
                  other |-> <<Clamp(q[1] + o[1]), Clamp(q[2] + o[2])>>,
                  ball |-> <<q[1] + b[1], q[2] + b[2]>>, ballVel |-> <<0, 0>>]

NextPhys ==
    \/ SetVelocity
    \/ ApplyVelocity
    \/ CollideCreatures
    \/ CollideRocks
    \/ HandleMossBallCollision

SpecPhys == InitPhys /\ [][NextPhys]_behVars

(* --------------------------- one call, in space ----------------------- *)

\* TouchSheepGame._callSheep: callOrigin.y = 0.5
callOriginY == 500

\* where the caller stands, from the creature, on the ground plane
CallOffsets == {<<0, 0>>, <<2000, 0>>, <<-1000, -1000>>, <<0, -4000>>, <<4100, 0>>,
                <<3000, 4000>>, <<-6000, 8000>>, <<12000, -5000>>}
\* the creature's spot, and the ground height there (getGroundHeight is
\* within 2 units of 0)
CallSpots == {<<0, 0>>, <<5000, -3000>>}
GroundHeights == {-2000, 0, 500, 2000}

\* onCalled(sourcePosition): the synchronous part
CallFrom ==
    /\ call.pc = "start"
    /\ onCalledGuard(cf)
    /\ cf' = onCalled(cf)
    /\ call' = [call EXCEPT !.pc = "pending"]
    /\ op' = "onCalled"
    /\ UNCHANGED <<player, stroking, timers, ticks, events, phys, game>>

\* its callback
CallArrives ==
    /\ call.pc = "pending"
    /\ LET target == calledTarget(call.source, call.position)
           away == Length3(<<target[1] - call.position[1], 0, target[3] - call.position[3]>>)
       IN /\ cf' \in onCalledTimeout(cf, away)
          /\ call' = [call EXCEPT !.pc = "arrived",
                                  !.target = IF cf'.state = "called" THEN target ELSE @]
    /\ op' = "onCalledTimeout"
    /\ UNCHANGED <<player, stroking, timers, ticks, events, phys, game>>

InitCall ==
    /\ cf \in {newCloudfen(r) : r \in InitRolls}
    /\ player = NoPlayer
    /\ stroking = FALSE
    /\ timers = <<>>
    /\ op = "init"
    /\ ticks = MaxTicks
    /\ events = MaxEvents
    /\ phys = PhysOff
    /\ game = GameOff
    /\ \E q \in CallSpots, y \in GroundHeights, o \in CallOffsets :
          call = [pc |-> "start", position |-> <<q[1], y, q[2]>>,
                  source |-> <<q[1] + o[1], callOriginY, q[2] + o[2]>>,
                  target |-> <<0, 0, 0>>]

NextCall ==
    \/ CallFrom
    \/ CallArrives

SpecCall == InitCall /\ [][NextCall]_behVars

(* ------------------------- spawning at runtime ------------------------ *)

\* the creature, the player and every other variable the game-level
\* specifications leave alone
GameStep(name) ==
    /\ op' = name
    /\ UNCHANGED <<cf, player, stroking, timers, ticks, events, phys, call>>

InitOutsideGame ==
    /\ cf = newCloudfen(0)
    /\ player = NoPlayer
    /\ stroking = FALSE
    /\ timers = <<>>
    /\ op = "init"
    /\ ticks = MaxTicks
    /\ events = MaxEvents
    /\ phys = PhysOff
    /\ call = CallOff

\* _spawnNewSheep: minDistFromPlayer, minDistFromSheep, attempts < 15
minDistFromPlayer == 18000
minDistFromSheep == 5000
maxSpawnAttempts == 15

\* Math.sqrt(dx ** 2 + dz ** 2) < d for positions <<x, z>> that are whole
\* centimetres apart (the squares are taken in centimetres)
CloserThan(a, b, d) ==
    LET dx == (a[1] - b[1]) \div 10
        dz == (a[2] - b[2]) \div 10
    IN dx * dx + dz * dz < (d \div 10) * (d \div 10)

\* (cos(angle) * distance, sin(angle) * distance), distance in [8, 30)
SpawnCandidates == {<<8000, 0>>, <<0, 29000>>, <<-20000, 0>>, <<10000, -10000>>,
                    <<0, -8000>>, <<21000, 21000>>}

\* the candidate fails the player test or the flock test
spawnRejected(g, c) ==
    \/ CloserThan(c, g.playerPosition, minDistFromPlayer)
    \/ \E sheep \in g.cloudfens : CloserThan(c, sheep, minDistFromSheep)

(* one pass of the do ... while (attempts < 15) of _spawnNewSheep: `continue` *)
(* and the fall through both reach the loop test with attempts incremented    *)
spawnAttempt(g, c) ==
    IF ~spawnRejected(g, c)
    THEN [g EXCEPT !.spawn = c, !.pc = "chosen"]
    ELSE [g EXCEPT !.spawn = c, !.attempts = g.attempts + 1,
                   !.pc = IF g.attempts + 1 < maxSpawnAttempts THEN "loop" ELSE "chosen"]

SpawnAttempt ==
    /\ game.pc = "loop"
    /\ \E c \in SpawnCandidates : game' = spawnAttempt(game, c)
    /\ GameStep("spawnAttempt")

\* cloudfen.init(spawnX, spawnZ, scale); this.cloudfens.push(cloudfen)
SpawnCreate ==
    /\ game.pc = "chosen"
    /\ game' = [game EXCEPT !.pc = "spawned", !.cloudfens = @ \cup {game.spawn}]
    /\ GameStep("spawnCreate")

\* where the player and the flock are when _spawnNewSheep starts
SpawnPlayerPositions == {<<0, 0>>, <<20000, 0>>, <<-10000, -10000>>}
SpawnFlocks == {{}, {<<0, 28000>>}, {<<9000, 0>>, <<-19000, 1000>>},
                {<<9000, 0>>, <<-19000, 1000>>, <<0, 27000>>, <<12000, -11000>>,
                 <<1000, -9000>>, <<20000, 20000>>}}

InitSpawn ==
    /\ InitOutsideGame
    /\ \E q \in SpawnPlayerPositions, f \in SpawnFlocks :
          game = [pc |-> "loop", playerPosition |-> q, cloudfens |-> f, before |-> f,
                  attempts |-> 0, spawn |-> <<0, 0>>]

NextSpawn ==
    \/ SpawnAttempt
    \/ SpawnCreate

SpecSpawn == InitSpawn /\ [][NextSpawn]_behVars

(* ------------------------ creating the mesh --------------------------- *)

\* how loader.load('sheep.glb') ends: onLoad (resolve) or onError (reject)
LoadOutcomes == {"resolve", "reject"}

\* init(x, z, scale): the spots and scales the game creates creatures with
MeshSpots == {<<0, 0>>, <<5000, -3000>>, <<-12000, 9000>>, <<8000, 0>>}
MeshScales == {850, 1000}

\* a try block without its catch: a rejected load leaves this.mesh null
_createMeshNoCatch(g, outcome) ==
    IF outcome = "resolve"
    THEN [g EXCEPT !.model = "gltf.scene", !.mesh = "gltf.scene",
                   !.modelYOffset = (950 * g.baseScale) \div 1000, !.pc = "meshed"]
    ELSE [g EXCEPT !.loadFailed = TRUE, !.pc = "meshed"]

(* Cloudfen._createMesh, the try/catch: the loaded model, or on a rejected   *)
(* load the group _createFallbackMesh builds                                 *)
_createMesh(g, outcome) ==
    IF outcome = "resolve"
    THEN [g EXCEPT !.model = "gltf.scene", !.mesh = "gltf.scene",
                   !.modelYOffset = (950 * g.baseScale) \div 1000, !.pc = "meshed"]
    ELSE [g EXCEPT !.mesh = "fallback", !.loadFailed = TRUE,
                   !.modelYOffset = (300 * g.baseScale) \div 1000, !.pc = "meshed"]

\* mesh.position.set(x, groundY + modelYOffset, z); game.scene.add(mesh)
_placeMesh(g) ==
    [g EXCEPT !.meshY = g.groundY + g.modelYOffset,
              !.scene = @ \cup {g.mesh}, !.pc = "initialised"]

\* new Cloudfen(game); cloudfen.init(x, z, scale) up to the await of the load
CreatureInit ==
    /\ game.pc = "new"
    /\ \E q \in MeshSpots, sc \in MeshScales, y \in GroundHeights :
          game' = [game EXCEPT !.position = q, !.baseScale = sc, !.groundY = y,
                               !.pc = "loading"]
    /\ GameStep("init")

MeshLoadSettles ==
    /\ game.pc = "loading"
    /\ \E outcome \in LoadOutcomes : game' = _createMesh(game, outcome)
    /\ GameStep("createMesh")

MeshPlaced ==
    /\ game.pc = "meshed"
    /\ game' = _placeMesh(game)
    /\ GameStep("placeMesh")

InitMesh ==
    /\ InitOutsideGame
    /\ game = [pc |-> "new", position |-> <<0, 0>>, baseScale |-> 1000, groundY |-> 0,
               mesh |-> "null", model |-> "null", modelYOffset |-> 0, meshY |-> 0,
               loadFailed |-> FALSE, scene |-> {}]

NextMesh ==
    \/ CreatureInit
    \/ MeshLoadSettles
    \/ MeshPlaced

SpecMesh == InitMesh /\ [][NextMesh]_behVars

(* ----------------------- the interaction prompt ----------------------- *)

\* Player._checkInteractions: the interaction range, the Bird's and the Gather's
interactionRange == 3000
birdRange == 6000
gatherRange == 4000

\* no creature at all, or no game.bird
NoOne == -1

\* distances from the player to the nearest Cloudfen and to the Bird
CloudfenDists == {NoOne, 2000, 3500, 9000}
BirdDists == {NoOne, 4000, 9000}

\* UIManager.state after hideInteractionPrompt()
PromptHidden == [showInteractionPrompt |-> FALSE, interactionType |-> "null"]

\* UIManager.showInteractionPrompt(type)
showInteractionPrompt(type) == [showInteractionPrompt |-> TRUE, interactionType |-> type]

\* HUD.showPetPrompt(show): nothing without game.ui
showPetPrompt(ui, hasUi, show) ==
    IF ~hasUi THEN ui
    ELSE IF show THEN showInteractionPrompt("pet") ELSE PromptHidden

\* HUD.showRecordPrompt(show, soundType): nothing without game.ui
showRecordPrompt(ui, hasUi, show, soundType) ==
    IF ~hasUi THEN ui
    ELSE IF show /\ soundType # "null"
         THEN showInteractionPrompt(IF soundType = "gather" THEN "record-gather"
                                                           ELSE "record-charge")
         ELSE PromptHidden

\* this.nearbyCloudfen !== null after the search of _checkInteractions
nearbyCloudfen(g) == g.cloudfenDist # NoOne /\ g.cloudfenDist < interactionRange

\* this.nearbySoundSource?.type: the Bird's charge, overwritten by the
\* Cloudfen's gather while game.state.hasGather is false
nearbySoundSource(g) ==
    IF nearbyCloudfen(g) /\ ~g.hasGather /\ g.cloudfenDist < gatherRange THEN "gather"
    ELSE IF g.birdDist # NoOne /\ g.birdDist < birdRange THEN "charge"
    ELSE "null"

(* Player._checkInteractions: the two HUD calls in their order, then the pet key *)
_checkInteractions(g, petKey) ==
    LET ui1 == showPetPrompt(g.ui, g.hasUi, nearbyCloudfen(g))
        ui2 == showRecordPrompt(ui1, g.hasUi, nearbySoundSource(g) # "null",
                                nearbySoundSource(g))
    IN [g EXCEPT !.ui = ui2, !.petted = petKey /\ nearbyCloudfen(g)]

CheckInteractions ==
    /\ game.pc = "play"
    /\ \E petKey \in BOOLEAN : game' = _checkInteractions(game, petKey)
    /\ GameStep("checkInteractions")

\* the player, the creatures or the Bird move between two frames
PlayerWalks ==
    /\ game.pc = "play"
    /\ \E d \in CloudfenDists, b \in BirdDists :
          /\ <<d, b>> # <<game.cloudfenDist, game.birdDist>>
          /\ game' = [game EXCEPT !.cloudfenDist = d, !.birdDist = b]
    /\ GameStep("playerWalks")

\* a finished recording of the Gather: game.state.hasGather = true
GatherRecorded ==
    /\ game.pc = "play"
    /\ ~game.hasGather
    /\ nearbySoundSource(game) = "gather"
    /\ game' = [game EXCEPT !.hasGather = TRUE]
    /\ GameStep("gatherRecorded")

InitPrompt ==
    /\ InitOutsideGame
    /\ \E u \in BOOLEAN :
          game = [pc |-> "play", cloudfenDist |-> 9000, birdDist |-> 9000,
                  hasGather |-> FALSE, hasUi |-> u, ui |-> PromptHidden,
                  petted |-> FALSE]

NextPrompt ==
    \/ CheckInteractions
    \/ PlayerWalks
    \/ GatherRecorded

SpecPrompt == InitPrompt /\ [][NextPrompt]_behVars

(* ------------------------ answering a call, in space ------------------ *)

\* the state timer is followed up to here; _updateCalled does not read it
CalledTimerCap == 3000

\* Math.sqrt(dx * dx + dz * dz) between two <<x, z>> positions, for positions
\* at most 30 units apart on each axis
Dist2(a, b) ==
    Isqrt((a[1] - b[1]) * (a[1] - b[1]) + (a[2] - b[2]) * (a[2] - b[2]))

(* _updateCalled, the velocity: dir.normalize() * approachSpeed while the    *)
(* target is more than 0.8 away, and untouched on arrival                    *)
calledVelocity(ph) ==
    LET dist == Dist2(ph.target, ph.pos)
    IN IF dist > 800
       THEN <<((ph.target[1] - ph.pos[1]) * approachSpeed) \div dist,
              ((ph.target[2] - ph.pos[2]) * approachSpeed) \div dist>>
       ELSE ph.vel

\* update() of a called creature, the position: _updateCalled's velocity, then
\* _applyPhysics and _handleMossBallCollision
calledPhysics(ph, dt) ==
    CHOOSE after \in
        {_handleMossBallCollision(c) :
            c \in {collideRocks(b) :
                b \in {collideCreatures(a) :
                    a \in {applyVelocity(v, dt) :
                        v \in {[ph EXCEPT !.vel = calledVelocity(ph)]}}}}} : TRUE

\* one update() of a creature in the called state, in space
UpdateCalled ==
    /\ phys.pc = "called"
    /\ cf.state = "called"
    /\ \E ph \in {calledPhysics(phys, Dt)},
          s \in {[cf EXCEPT !.target = Dist2(phys.target, phys.pos)]} :
          /\ \E t \in update(s, Dt, player) :
                cf' = [t EXCEPT !.stateTimer = Min(CalledTimerCap, @),
                                !.target = IF t.state = "called"
                                           THEN Dist2(ph.target, ph.pos) ELSE NoTarget]
          /\ phys' = ph
          /\ player' = [player EXCEPT !.dist = Dist2(ph.source, ph.pos)]
    /\ op' = "update"
    /\ UNCHANGED <<stroking, timers, ticks, events, call, game>>

\* where the creature stood and where the player called from (the player
\* walks within 40 units of the centre, the creature within 25)
CalledScenes ==
    {[position |-> <<10000, 0>>, source |-> <<20000, 0>>],
     [position |-> <<0, 0>>, source |-> <<3000, 4000>>],
     [position |-> <<0, 0>>, source |-> <<-6000, 8000>>],
     [position |-> <<-5000, 5000>>, source |-> <<-5000, 7000>>],
     [position |-> <<20000, 0>>, source |-> <<35000, 0>>],
     [position |-> <<20000, 20000>>, source |-> <<30000, 30000>>],
     [position |-> <<20000, -20000>>, source |-> <<20000, -8000>>]}

\* a creature that has been up for a long time: tiredness has climbed to 1,
\* playfulness has drained (_updateMood, tiredness > 0.6), contentment has
\* drifted to 0.5
longAwake(s) == [s EXCEPT !.tiredness = U, !.playfulness = 0, !.contentment = 5000]

\* the callback of onCalled has just run and chose to come
InitCalled ==
    /\ stroking = FALSE
    /\ timers = <<>>
    /\ op = "onCalledTimeout"
    /\ ticks = 0
    /\ events = MaxEvents
    /\ call = CallOff
    /\ game = GameOff
    /\ \E sc \in CalledScenes, r \in InitRolls :
          LET t3 == calledTarget(<<sc.source[1], callOriginY, sc.source[2]>>,
                                 <<sc.position[1], 0, sc.position[2]>>)
              target == <<t3[1], t3[3]>>
          IN /\ phys = [pc |-> "called", pos |-> sc.position, vel |-> <<0, 0>>,
                        other |-> <<-24000, -24000>>, ball |-> <<0, -24000>>,
                        ballVel |-> <<0, 0>>, target |-> target, source |-> sc.source]
             /\ cf = [setState(longAwake(newCloudfen(r)), "called")
                        EXCEPT !.target = Dist2(target, sc.position)]
             /\ player = [present |-> TRUE, dist |-> Dist2(sc.source, sc.position),
                          running |-> FALSE]

NextCalled == UpdateCalled

\* the game loop runs update() on every animation frame
SpecCalled == InitCalled /\ [][NextCalled]_behVars /\ WF_behVars(UpdateCalled)

(* ------------------------- the petting session ------------------------ *)

\* the creatures the crosshair can rest on; NoSheep is hoveredSheep = null
Sheep == {1, 2}
NoSheep == 0

\* the most 800 ms callbacks of _onTapToPet followed per creature
MaxTaps == 2

\* Cloudfen.startPetting and Cloudfen.endPetting, the isPetted flag of sheep i
startPettingOf(g, i) == [g EXCEPT !.isPetted[i] = TRUE]
endPettingOf(g, i) == [g EXCEPT !.isPetted[i] = FALSE]

(* TouchSheepGame._updateInteraction: `hit` is the creature the ray from the  *)
(* camera centre meets first, `inRange` is distance <= interactionRange.      *)
(* onHoverStart, onHoverEnd and onStroke leave isPetted alone.                *)
_updateInteraction(g, hit, inRange) ==
    IF ~g.isLocked
    THEN [g EXCEPT !.hoveredSheep = NoSheep, !.canInteract = FALSE]
    ELSE LET canInteract == hit # NoSheep /\ inRange
             g1 == [g EXCEPT !.canInteract = canInteract, !.hoveredSheep = hit]
         IN IF g1.isPetting /\ g1.hoveredSheep # NoSheep /\ canInteract
            THEN g1
            ELSE IF g1.isPetting
                 THEN [(IF g1.hoveredSheep # NoSheep
                        THEN endPettingOf(g1, g1.hoveredSheep) ELSE g1)
                          EXCEPT !.isPetting = FALSE]
                 ELSE g1

(* _onMouseDown with _tryPetSheep *)
_onMouseDown(g) ==
    IF g.isLocked /\ g.canInteract /\ g.hoveredSheep # NoSheep /\ ~g.isPetting
    THEN [startPettingOf(g, g.hoveredSheep) EXCEPT !.isPetting = TRUE]
    ELSE g

(* _onMouseUp *)
_onMouseUp(g) ==
    IF g.isPetting /\ g.hoveredSheep # NoSheep
    THEN [endPettingOf(g, g.hoveredSheep) EXCEPT !.isPetting = FALSE]
    ELSE g

(* _onTapToPet: a tap that meets sheep i within 1.5 * interactionRange *)
_onTapToPet(g, i) == [startPettingOf(g, i) EXCEPT !.tapTimers[i] = @ + 1]

UpdateInteraction ==
    /\ game.pc = "session"
    /\ \E hit \in Sheep \cup {NoSheep}, inRange \in BOOLEAN :
          game' = _updateInteraction(game, hit, inRange)
    /\ GameStep("updateInteraction")

OnMouseDown ==
    /\ game.pc = "session"
    /\ ~game.mouseDown
    /\ game' = [_onMouseDown(game) EXCEPT !.mouseDown = TRUE]
    /\ GameStep("onMouseDown")

OnMouseUp ==
    /\ game.pc = "session"
    /\ game.mouseDown
    /\ game' = [_onMouseUp(game) EXCEPT !.mouseDown = FALSE]
    /\ GameStep("onMouseUp")

OnTapToPet ==
    /\ game.pc = "session"
    /\ \E i \in Sheep :
          /\ game.tapTimers[i] < MaxTaps
          /\ game' = _onTapToPet(game, i)
    /\ GameStep("onTapToPet")

\* the 800 ms callback of _onTapToPet: tappedSheep.endPetting(1.0)
TapTimeout ==
    /\ game.pc = "session"
    /\ \E i \in Sheep :
          /\ game.tapTimers[i] > 0
          /\ game' = [endPettingOf(game, i) EXCEPT !.tapTimers[i] = @ - 1]
    /\ GameStep("tapTimeout")

\* pointerlockchange
PointerLockChange ==
    /\ game.pc = "session"
    /\ game' = [game EXCEPT !.isLocked = ~@]
    /\ GameStep("pointerLockChange")

InitSession ==
    /\ InitOutsideGame
    /\ game = [pc |-> "session", isLocked |-> FALSE, isPetting |-> FALSE,
               hoveredSheep |-> NoSheep, canInteract |-> FALSE, mouseDown |-> FALSE,
               isPetted |-> [i \in Sheep |-> FALSE], tapTimers |-> [i \in Sheep |-> 0]]

NextSession ==
    \/ UpdateInteraction
    \/ OnMouseDown
    \/ OnMouseUp
    \/ OnTapToPet
    \/ TapTimeout
    \/ PointerLockChange

SpecSession == InitSession /\ [][NextSession]_behVars

(* --------------------------- petting to bliss ------------------------- *)

\* TouchSheepGame._update for a creature being petted, as Update, with the
\* time its happiness has been above 0.8 kept beside it: game.aboveFor counts
\* every frame that ended above 0.8 since the last one that did not
UpdatePetted ==
    /\ game.pc = "petting"
    /\ cf.state = "petted"
    /\ cf.isPetted
    /\ \E t \in update(IF stroking THEN onStroke(cf, StrokeSpeed) ELSE cf, Dt, player) :
          /\ cf' = t
          /\ game' = [game EXCEPT !.aboveFor = IF t.happiness > 8000 THEN @ + Dt ELSE 0]
    /\ op' = "update"
    /\ UNCHANGED <<player, stroking, timers, ticks, events, phys, call>>

\* a creature fresh from its constructor, the player beside it; one
\* startPetting() and the end of the strokes are to come
InitBliss ==
    /\ cf \in {newCloudfen(r) : r \in InitRolls}
    /\ player = [present |-> TRUE, dist |-> 1500, running |-> FALSE]
    /\ stroking = FALSE
    /\ timers = <<>>
    /\ op = "init"
    /\ ticks = 0
    /\ events = MaxEvents - 2
    /\ phys = PhysOff
    /\ call = CallOff
    /\ game = [pc |-> "petting", aboveFor |-> 0]

NextBliss ==
    \/ StartPetting
    \/ StrokingEnds
    \/ UpdatePetted

SpecBliss == InitBliss /\ [][NextBliss]_behVars

(* ----------------------- answering a vocalization --------------------- *)

\* a peer test that leaves out only the sleepers
validPeerAwake(s) == s.state # "sleeping"

(* _findNearestSheep: the creatures it does not skip *)
validPeer(s) == s.state \notin {"sleeping", "fleeing", "petted", "bliss"}

(* _doRespondVocalize, the flag: isVocalizing = true unless asleep *)
_doRespondVocalize(s, g) ==
    IF s.state # "sleeping" THEN [g EXCEPT !.isVocalizing = TRUE] ELSE g

\* a peer within 10 units runs _doVocalize, rolls under 0.3 and finds this
\* creature nearest: the response is due in 300 + Math.random() * 500 ms
PeerVocalizes ==
    /\ game.pc = "quiet"
    /\ validPeer(cf)
    /\ \E delay \in RandSpan(300, 500) :
          timers' = Schedule(timers, "respond", delay, 0)
    /\ game' = [game EXCEPT !.pc = "scheduled", !.heardIn = cf.state]
    /\ op' = "peerVocalizes"
    /\ UNCHANGED <<cf, player, stroking, ticks, events, phys, call>>

\* the callback: nearestSheep.sheep._doRespondVocalize(), which schedules the
\* end of its own flag 400 ms on
RespondVocalize ==
    \E i \in 1..Len(timers) :
        /\ timers[i].kind = "respond"
        /\ timers[i].left < Dt
        /\ game' = [_doRespondVocalize(cf, game) EXCEPT !.pc = "fired"]
        /\ timers' = IF cf.state # "sleeping"
                     THEN Schedule(Remove(timers, i), "vocalEnd", 400, 0)
                     ELSE Remove(timers, i)
        /\ op' = "respondVocalize"
        /\ UNCHANGED <<cf, player, stroking, ticks, events, phys, call>>

\* setTimeout(() => { this.isVocalizing = false; }, 400)
VocalizingEnds ==
    \E i \in 1..Len(timers) :
        /\ timers[i].kind = "vocalEnd"
        /\ timers[i].left < Dt
        /\ game' = [game EXCEPT !.isVocalizing = FALSE]
        /\ timers' = Remove(timers, i)
        /\ op' = "vocalizingEnds"
        /\ UNCHANGED <<cf, player, stroking, ticks, events, phys, call>>

\* the states the creature is in when the model starts to follow it
VocalStates == {"idle", "grazing", "resting", "curious"}

\* a creature some way into its life, the player standing 3.5 units away;
\* eight updates and one call from the game are to come
InitVocal ==
    /\ player = [present |-> TRUE, dist |-> 3500, running |-> FALSE]
    /\ \E pr \in {"low", "high"}, st \in VocalStates, t \in {0, 5100} :
          cf = midLife(pr, st, t, FALSE, 0, FALSE, player)
    /\ stroking = FALSE
    /\ timers = <<>>
    /\ op = "init"
    /\ ticks = MaxTicks - 8
    /\ events = MaxEvents - 1
    /\ phys = PhysOff
    /\ call = CallOff
    /\ game = [pc |-> "quiet", isVocalizing |-> FALSE, heardIn |-> "none"]

NextVocal ==
    \/ PeerVocalizes
    \/ RespondVocalize
    \/ VocalizingEnds
    \/ Update
    \/ StartPetting
    \/ PlayerMove

SpecVocal == InitVocal /\ [][NextVocal]_behVars

(* ----------------------------- a sleeper ------------------------------ *)

\* where the player stands by a sleeping creature (horizontal distance; the
\* snapshot is EyeHeight above the ground), or no snapshot
SleepPlayerInfos ==
    {NoPlayer} \cup [present : {TRUE}, dist : {500, 1500, 1800, 2500, 3500, 9000},
                     running : {FALSE}]

\* a sleeping creature, hovered or not, and one update to come
InitSleep ==
    /\ player \in SleepPlayerInfos
    /\ \E pr \in Profiles, t \in {0, 1950, 2950}, hovered \in BOOLEAN :
          cf = midLife(pr, "sleeping", t, FALSE, 0, hovered, player)
    /\ stroking = FALSE
    /\ timers = <<>>
    /\ op = "init"
    /\ ticks = MaxTicks - 1
    /\ events = MaxEvents
    /\ phys = PhysOff
    /\ call = CallOff
    /\ game = GameOff

NextSleep == Update

SpecSleep == InitSleep /\ [][NextSleep]_behVars

(* ------------------------- a social episode --------------------------- *)

\* updates and events of one run
SocialTicks == 12
SocialEvents == 3

\* a creature in its first social episode, socialTimer and stateTimer both
\* reading the time since it began, with the player out of the way
InitSocial ==
    /\ player \in {NoPlayer, [present |-> TRUE, dist |-> 9000, running |-> FALSE]}
    /\ \E pr \in Profiles, t \in {0, 3900} :
          cf = midLife(pr, "social", t, FALSE, 0, FALSE, player)
    /\ stroking = FALSE
    /\ timers = <<>>
    /\ op = "init"
    /\ ticks = MaxTicks - SocialTicks
    /\ events = MaxEvents - SocialEvents
    /\ phys = PhysOff
    /\ call = CallOff
    /\ game = GameOff

NextSocial ==
    \/ Update
    \/ StartPetting
    \/ EndPetting
    \/ EndPettingTimeout
    \/ PeerSocialTrigger

SpecSocial == InitSocial /\ [][NextSocial]_behVars

(* ----------------------- the transient flags -------------------------- *)

\* headShakeActive, pawingGround, isSniffing, isVocalizing
Behaviours == {"headShake", "pawGround", "sniff", "vocalize"}

\* rolled firings (social, curious) in one run, and its updates
MaxFirings == 2
FlagTicks == 8

\* m: the flags, the countdowns of _updateMicroBehaviors (ms), the pending
\* timeouts, and for each flag the time its most recent firing has yet to run
\* a firing: the flag goes up and setTimeout(() => flag = false, dur) is set;
\* nothing cancels the timeouts set before
setAt(fn, k, v) == [g \in Behaviours |-> IF g = k THEN v ELSE fn[g]]

doFlag(m, f, dur) ==
    [m EXCEPT !.flag = setAt(m.flag, f, TRUE), !.due = setAt(m.due, f, dur),
              !.ts = Schedule(m.ts, f, dur, 0)]

_doHeadShake(m) == doFlag(m, "headShake", 400)
_doPawGround(m) == doFlag(m, "pawGround", 600)
_doSniff(m) == doFlag(m, "sniff", 800)
\* (the response it may schedule is the peer's, not this creature's)
_doVocalize(m) == doFlag(m, "vocalize", 500)
_doRespondVocalizeTimed(m, s) ==
    IF s.state # "sleeping" THEN doFlag(m, "vocalize", 400) ELSE m

(* Cloudfen._updateMicroBehaviors: the four countdowns that raise a flag; a *)
(* countdown is reloaded with the least value its roll can give            *)
_updateMicroBehaviors(m0, s, dt) ==
    LET m == [m0 EXCEPT !.count = [f \in Behaviours |-> m0.count[f] - dt]]
        m1 == IF m.count["headShake"] <= 0 /\ s.state # "sleeping"
              THEN [_doHeadShake(m) EXCEPT !.count = setAt(m.count, "headShake", 10000)] ELSE m
        m2 == IF m1.count["pawGround"] <= 0 /\ s.state \in {"idle", "curious"}
              THEN [_doPawGround(m1) EXCEPT !.count = setAt(m1.count, "pawGround", 12000)] ELSE m1
        m3 == IF m2.count["sniff"] <= 0 /\ s.state # "sleeping"
              THEN [_doSniff(m2) EXCEPT !.count = setAt(m2.count, "sniff", 5000)] ELSE m2
    IN IF m3.count["vocalize"] <= 0
       THEN [_doVocalize(m3) EXCEPT
               !.count = setAt(m3.count, "vocalize",
                               IF s.happiness > 3000 THEN 15000 ELSE 25000)]
       ELSE m3

\* the firings _updateSocial (beside its target) and _updateCurious roll for
stateFlags(m, s) ==
    LET Coin == IF m.fires < MaxFirings THEN BOOLEAN ELSE {FALSE}
        rolled(x, b) == IF b THEN [x EXCEPT !.fires = @ + 1] ELSE x
    IN IF s.state = "social" /\ s.hasSocialTarget
       THEN {LET m1 == IF v THEN rolled(_doVocalize(m), TRUE) ELSE m
             IN IF n /\ ~m1.flag["sniff"] /\ m1.fires < MaxFirings
                THEN rolled(_doSniff(m1), TRUE) ELSE m1
               : v \in Coin, n \in Coin}
       ELSE IF s.state = "curious"
       THEN {LET m1 == IF w /\ s.stateTimer > 1000 /\ ~m.flag["pawGround"]
                       THEN rolled(_doPawGround(m), TRUE) ELSE m
             IN IF v /\ s.stateTimer > 2000 /\ m1.fires < MaxFirings
                THEN rolled(_doVocalize(m1), TRUE) ELSE m1
               : w \in Coin, v \in Coin}
       ELSE {m}

\* the flags and timeouts as one value, a frame's time taken off
flagsNow(dt) ==
    [flag |-> game.flag, count |-> game.count, fires |-> game.fires,
     due |-> [f \in Behaviours |-> Max(0, game.due[f] - dt)],
     ts |-> [i \in 1..Len(timers) |->
               [kind |-> timers[i].kind, left |-> timers[i].left - dt,
                d |-> timers[i].d]]]

flagsOf(m) ==
    [game EXCEPT !.flag = m.flag, !.count = m.count, !.fires = m.fires, !.due = m.due]

\* update(dt): the awareness check, the micro-behaviours, then the state
FlagUpdate ==
    /\ ticks < MaxTicks
    /\ \A i \in 1..Len(timers) : timers[i].left >= Dt
    /\ \E a \in _updatePlayerAwareness(updateTimers(cf, Dt), Dt, player) :
         \E m1 \in {_updateMicroBehaviors(flagsNow(Dt), a, Dt)} :
           \E b \in {updateTiredness(_updateAttention(_updateMood(a, Dt, player)), Dt)} :
             \E m2 \in stateFlags(m1, b) :
               /\ cf' \in updateState(b, Dt, player)
               /\ game' = flagsOf(m2)
               /\ timers' = m2.ts
    /\ ticks' = ticks + 1
    /\ op' = "update"
    /\ UNCHANGED <<player, stroking, events, phys, call>>

\* setTimeout(() => { this.<flag> = false; }, dur)
FlagTimeout ==
    \E i \in 1..Len(timers) :
        /\ timers[i].kind \in Behaviours
        /\ timers[i].left < Dt
        /\ game' = [game EXCEPT !.flag = setAt(game.flag, timers[i].kind, FALSE)]
        /\ timers' = Remove(timers, i)
        /\ op' = "flagTimeout"
        /\ UNCHANGED <<cf, player, stroking, ticks, events, phys, call>>

\* a peer's _doVocalize picks this creature: its response is due in
\* 300 + Math.random() * 500 ms
FlagPeerVocalizes ==
    /\ ~game.heard
    /\ validPeer(cf)
    /\ \E delay \in RandSpan(300, 500) : timers' = Schedule(timers, "respond", delay, 0)
    /\ game' = [game EXCEPT !.heard = TRUE]
    /\ op' = "peerVocalizes"
    /\ UNCHANGED <<cf, player, stroking, ticks, events, phys, call>>

\* nearestSheep.sheep._doRespondVocalize()
FlagRespond ==
    \E i \in 1..Len(timers) :
        /\ timers[i].kind = "respond"
        /\ timers[i].left < Dt
        /\ \E m \in {_doRespondVocalizeTimed(
                        [flag |-> game.flag, count |-> game.count, fires |-> game.fires,
                         due |-> game.due, ts |-> Remove(timers, i)], cf)} :
              game' = flagsOf(m) /\ timers' = m.ts
        /\ op' = "respondVocalize"
        /\ UNCHANGED <<cf, player, stroking, ticks, events, phys, call>>

\* a creature some way into its life; each countdown is 0.2 s from its end or
\* seconds away
InitFlags ==
    /\ player = [present |-> TRUE, dist |-> 9000, running |-> FALSE]
    /\ \E pr \in {"low", "high"}, st \in {"idle", "curious", "social"}, t \in {0, 2950} :
          cf = midLife(pr, st, t, FALSE, 0, FALSE, player)
    /\ stroking = FALSE
    /\ timers = <<>>
    /\ op = "init"
    /\ ticks = MaxTicks - FlagTicks
    /\ events = MaxEvents
    /\ phys = PhysOff
    /\ call = CallOff
    /\ \E c \in [Behaviours -> {200, 5000}] :
          game = [pc |-> "flags", flag |-> [f \in Behaviours |-> FALSE],
                  due |-> [f \in Behaviours |-> 0], count |-> c, fires |-> 0,
                  heard |-> FALSE]

NextFlags ==
    \/ FlagUpdate
    \/ FlagTimeout
    \/ FlagPeerVocalizes
    \/ FlagRespond

SpecFlags == InitFlags /\ [][NextFlags]_behVars

(* ------------------------- the flock's size --------------------------- *)

maxSheep == 25

\* the model stops counting a flock beyond this
FlockCap == 27

\* a frame that starts a spawn whether or not one is in flight
_updateSheepSpawningUnguarded(g, dt) ==
    IF g.flock >= maxSheep THEN {g}
    ELSE IF g.spawnTimer + dt >= g.nextSpawnTime
    THEN {[g EXCEPT !.spawnTimer = 0, !.nextSpawnTime = next,
                    !.isSpawningSheep = TRUE, !.inflight = Min(2, @ + 1)]
            : next \in RandSpan(Max(8000, 20000 - g.totalSpawned * 500), 15000)}
    ELSE {[g EXCEPT !.spawnTimer = @ + dt]}

(* TouchSheepGame._updateSheepSpawning, and _spawnNewSheep up to its await: *)
(* isSpawningSheep = true, the position search, new Cloudfen, init() called *)
_updateSheepSpawning(g, dt) ==
    IF g.flock >= maxSheep THEN {g}
    ELSE IF g.isSpawningSheep THEN {g}
    ELSE IF g.spawnTimer + dt >= g.nextSpawnTime
    THEN {[g EXCEPT !.spawnTimer = 0, !.nextSpawnTime = next,
                    !.isSpawningSheep = TRUE, !.inflight = @ + 1]
            : next \in RandSpan(Max(8000, 20000 - g.totalSpawned * 500), 15000)}
    ELSE {[g EXCEPT !.spawnTimer = @ + dt]}

(* _spawnNewSheep after await cloudfen.init(): push, totalSpawned++, and    *)
(* the finally block                                                        *)
_spawnNewSheepResumes(g) ==
    [g EXCEPT !.flock = @ + 1, !.totalSpawned = @ + 1,
              !.isSpawningSheep = FALSE, !.inflight = @ - 1]

\* _update(dt), the flock's part
UpdateSheepSpawning ==
    /\ game' \in _updateSheepSpawning(game, Dt)
    /\ GameStep("updateSheepSpawning")

\* cloudfen.init() resolves, some frames after it was called
SpawnResumes ==
    /\ game.inflight > 0
    /\ game.flock < FlockCap
    /\ game' = _spawnNewSheepResumes(game)
    /\ GameStep("spawnResumes")

\* the game loop starts once _initEntities has made 8 to 10 creatures; the
\* first spawn is due after 15 + Math.random() * 20 s
InitFlock ==
    /\ InitOutsideGame
    /\ \E n \in 8..10, next \in RandSpan(15000, 20000) :
          game = [pc |-> "flock", flock |-> n, spawnTimer |-> 0, nextSpawnTime |-> next,
                  totalSpawned |-> 0, isSpawningSheep |-> FALSE, inflight |-> 0]

NextFlock == UpdateSheepSpawning \/ SpawnResumes

SpecFlock == InitFlock /\ [][NextFlock]_behVars

(* ------------------- the sound system (gather, charge) ---------------- *)

\* charges counted in one press of the button
MaxCharges == 2

\* the contents of the two slots once sounds have been recorded
SoundSlots == {<<"gather", "charge">>, <<"charge", "gather">>,
               <<"gather", "none">>, <<"charge", "none">>}

\* entities/Cloudfen.js: setState, startGathering, stopGathering, charge
herdSetState(c, st) == IF c.state = st THEN c ELSE [state |-> st, stateTimer |-> 0]

startGathering(c) == IF c.state # "petted" THEN herdSetState(c, "gathering") ELSE c

stopGathering(c) == IF c.state = "gathering" THEN herdSetState(c, "idle") ELSE c

charge(c) == herdSetState(c, "charging")

\* entities/Cloudfen.js update: the states that end by themselves
herdUpdate(c, dt) ==
    IF c.state = "charging"
    THEN IF c.stateTimer + dt >= 800 THEN herdSetState(c, "idle")
         ELSE [c EXCEPT !.stateTimer = @ + dt]
    ELSE IF c.state = "petted"
    THEN IF c.stateTimer + dt >= 1000 THEN herdSetState(c, "idle")
         ELSE [c EXCEPT !.stateTimer = @ + dt]
    ELSE c

(* SoundSystem._startGather / _stopGather / _triggerCharge; g.near: the     *)
(* creature is within 8 * volume of the player                              *)
_startGather(g) ==
    [g EXCEPT !.isPlayingState = TRUE, !.stateSoundType = "gather",
              !.cloudfen = startGathering(g.cloudfen)]

_stopGather(g) ==
    [g EXCEPT !.isPlayingState = FALSE, !.stateSoundType = "none",
              !.cloudfen = stopGathering(g.cloudfen)]

_triggerCharge(g) ==
    [g EXCEPT !.isPlayingState = TRUE,
              !.cloudfen = IF g.near THEN charge(g.cloudfen) ELSE g.cloudfen,
              !.charges = g.charges + 1,
              !.resets = Append(g.resets, 100)]

(* SoundSystem._handleSoundActivation *)
_handleSoundActivation(g) ==
    LET currentSound == g.slots[g.activeSlot]
    IN IF currentSound = "none" THEN g
       ELSE IF currentSound = "gather"
       THEN IF ~g.isPlayingState \/ g.stateSoundType # "gather"
            THEN _startGather(g) ELSE g
       ELSE IF ~g.isPlayingState THEN _triggerCharge(g) ELSE g

(* SoundSystem._handleSoundDeactivation *)
_handleSoundDeactivation(g) ==
    LET g1 == IF g.isPlayingState /\ g.stateSoundType = "gather"
              THEN _stopGather(g) ELSE g
    IN [g1 EXCEPT !.isPlayingState = FALSE]

\* Game._update: the creatures, then SoundSystem.update; the timeouts set
\* before this frame come dt nearer
SoundUpdate ==
    /\ game.charges < MaxCharges
    /\ \A i \in 1..Len(game.resets) : game.resets[i] >= Dt
    /\ \E g0 \in {[game EXCEPT !.cloudfen = herdUpdate(game.cloudfen, Dt),
                               !.resets = [i \in 1..Len(game.resets) |->
                                             game.resets[i] - Dt]]} :
          game' = IF g0.leftButton THEN _handleSoundActivation(g0)
                  ELSE _handleSoundDeactivation(g0)
    /\ GameStep("soundUpdate")

\* setTimeout(() => { this.isPlayingState = false; }, 100)
ChargeReset ==
    /\ \E i \in 1..Len(game.resets) :
          /\ game.resets[i] < Dt
          /\ game' = [game EXCEPT !.isPlayingState = FALSE,
                                  !.resets = Remove(game.resets, i)]
    /\ GameStep("chargeReset")

\* Input._onMouseDown / _onMouseUp, button 0
MouseDown ==
    /\ ~game.leftButton
    /\ game' = [game EXCEPT !.leftButton = TRUE, !.charges = 0]
    /\ GameStep("mouseDown")

MouseUp ==
    /\ game.leftButton
    /\ game' = [game EXCEPT !.leftButton = FALSE]
    /\ GameStep("mouseUp")

\* Digit1 / Digit2: Input._onSlotChange, SoundSystem.setActiveSlot
SlotChange ==
    /\ \E slot \in {1, 2} :
          /\ slot # game.activeSlot
          /\ game' = [game EXCEPT !.activeSlot = slot]
    /\ GameStep("slotChange")

InitSound ==
    /\ InitOutsideGame
    /\ \E sl \in SoundSlots, n \in BOOLEAN :
          game = [pc |-> "sound", slots |-> sl, activeSlot |-> 1, near |-> n,
                  leftButton |-> FALSE, isPlayingState |-> FALSE,
                  stateSoundType |-> "none", resets |-> <<>>, charges |-> 0,
                  cloudfen |-> [state |-> "idle", stateTimer |-> 0]]

NextSound ==
    \/ SoundUpdate
    \/ ChargeReset
    \/ MouseDown
    \/ MouseUp
    \/ SlotChange

SpecSound == InitSound /\ [][NextSound]_behVars

(* --------------------- the exit and the moss ball --------------------- *)

\* pushes in one run
MaxPushes == 1

\* the exit is at (0, 0, 38) with radius 3; the ball starts at (0, 0.8, 15);
\* the model keeps the ball on the line x = 0
exitZ == 38000
exitRadius == 3000
ballStartZ == 15000
mossBallRadius == 800
ballBounds == 40000

\* v * num / den, rounded toward zero
Damp(v, num, den) == IF v >= 0 THEN (v * num) \div den ELSE -(((-v) * num) \div den)

(* MossBall._applyPhysics: position += velocity * dt, friction 0.92, bounds *)
ballPhysics(g, dt) ==
    LET z1 == g.ballZ + Damp(g.ballVz, dt, 1000)
        v1 == Damp(g.ballVz, 92, 100)
    IN IF z1 < -ballBounds THEN [g EXCEPT !.ballZ = -ballBounds, !.ballVz = Damp(v1, -1, 2)]
       ELSE IF z1 > ballBounds THEN [g EXCEPT !.ballZ = ballBounds, !.ballVz = Damp(v1, -1, 2)]
       ELSE [g EXCEPT !.ballZ = z1, !.ballVz = v1]

(* MossBall.push *)
push(g, direction, force) ==
    [g EXCEPT !.ballVz = @ + direction * force, !.hasBeenPushed = TRUE]

\* mossBall.position.distanceTo(exitPosition) > 5, the ball's centre being
\* mossBallRadius above the ground
ballAwayFromExit(g) ==
    LET dz == Abs(g.ballZ - exitZ)
    IN dz >= 5000 \/ dz * dz + mossBallRadius * mossBallRadius > 5000 * 5000

(* PuzzleSystem._checkMossBallPosition with _onExitUnblocked *)
_checkMossBallPosition(g) ==
    IF ballAwayFromExit(g) /\ g.isExitBlocked
    THEN [g EXCEPT !.isExitBlocked = FALSE, !.isExitOpen = TRUE]
    ELSE g

(* PuzzleSystem._checkPlayerAtExit with _countNearbyCloudfen, _triggerVictory *)
_checkPlayerAtExit(g) ==
    IF ~g.isExitOpen \/ g.victoryTriggered THEN g
    ELSE IF g.playerToExit < exitRadius /\ g.nearbyCount >= 1
    THEN [g EXCEPT !.victoryTriggered = TRUE]
    ELSE g

\* Game._update: mossBall.update(dt), then puzzleSystem.update(dt)
PuzzleUpdate ==
    /\ game' = _checkPlayerAtExit(_checkMossBallPosition(ballPhysics(game, Dt)))
    /\ GameStep("puzzleUpdate")

\* a creature runs into the ball: charging (chargeSpeed * 1.2) or walking
\* (speed * 0.8), from either side
BallPushed ==
    /\ game.pushes < MaxPushes
    /\ \E direction \in {-1, 1}, force \in {14400, 1600} :
          game' = [push(game, direction, force) EXCEPT !.pushes = @ + 1]
    /\ GameStep("ballPushed")

\* the player walks: from the start, 38 units from the exit, to the gate
PlayerToExit ==
    /\ \E d \in {2000, 38000} :
          /\ d # game.playerToExit
          /\ game' = [game EXCEPT !.playerToExit = d]
    /\ GameStep("playerToExit")

\* the creatures within 10 units of the exit
HerdMoves ==
    /\ \E n \in {0, 1} :
          /\ n # game.nearbyCount
          /\ game' = [game EXCEPT !.nearbyCount = n]
    /\ GameStep("herdMoves")

InitPuzzle ==
    /\ InitOutsideGame
    /\ game = [pc |-> "puzzle", ballZ |-> ballStartZ, ballVz |-> 0,
               hasBeenPushed |-> FALSE, pushes |-> 0,
               isExitBlocked |-> TRUE, isExitOpen |-> FALSE, victoryTriggered |-> FALSE,
               playerToExit |-> 38000, nearbyCount |-> 0]

NextPuzzle ==
    \/ PuzzleUpdate
    \/ BallPushed
    \/ PlayerToExit
    \/ HerdMoves

SpecPuzzle == InitPuzzle /\ [][NextPuzzle]_behVars

(* ------------------------------- claims ------------------------------ *)

\* C1: happiness and the three mood scalars (contentment, alertness,
\* playfulness) stay within [0, 1] whatever handler ran last
C1_ScalarsInUnit ==
    /\ cf.happiness \in 0..U
    /\ cf.contentment \in 0..U
    /\ cf.alertness \in 0..U
    /\ cf.playfulness \in 0..U

\* a stroke landed on a creature whose happiness was at the cap
C1_Witness ==
    op = "update" /\ stroking /\ cf.isPetted /\ cf.sinceStroke < Dt + 1 /\ cf.happiness = U

\* C2: the state becomes petted only in a step of startPetting
C2_PettedOnlyByStartPetting ==
    [][(cf'.state = "petted" /\ cf.state # "petted") => op' = "startPetting"]_behVars

\* startPetting moved a grazing creature to petted
C2_Witness ==
    op = "startPetting" /\ cf.state = "petted" /\ cf.stateTimer = 0 /\ cf.isPetted

\* C3: a creature in petted or bliss leaves the pair only by the callback of
\* endPetting or by the timeout of bliss in update, once petting is over
C3_LeavesPettingOnlyByEndOrTimeout ==
    [][(cf.state \in {"petted", "bliss"} /\ cf'.state \notin {"petted", "bliss"})
         => \/ op' = "endPettingTimeout"
            \/ op' = "update" /\ cf.state = "bliss" /\ ~cf.isPetted]_behVars

\* C4: stateTimer is never negative, and it reads 0 right after every step
\* that changed the state
C4_StateTimer ==
    /\ [](cf.stateTimer >= 0)
    /\ [][cf'.state # cf.state => cf'.stateTimer = 0]_behVars

\* an update took a petted creature to bliss and left the timer at 0
C4_Witness ==
    op = "update" /\ cf.state = "bliss" /\ cf.previousState = "petted" /\ cf.stateTimer = 0

\* the player runs within the flee threshold of a creature of flightiness 1.0
\* whose state lets it flee
C7_Case ==
    /\ cf.flightiness = U
    /\ player.present /\ player.running /\ HDist(player) < fleeThreshold
    /\ cf.state \notin {"petted", "bliss", "sleeping"}

\* C7 as stated: in that case the update leaves the creature fleeing
C7_FleesAsStated ==
    [][(op' = "update" /\ C7_Case) => cf'.state = "fleeing"]_behVars

\* C7, amended: it does when the player is not on the creature's very spot
\* and a creature already fleeing is not past its 3 s once the update's dt is
\* added
C7_Flees ==
    [][(/\ op' = "update" /\ C7_Case
        /\ HDist(player) > 0
        /\ (cf.state = "fleeing" => cf.stateTimer + Dt <= 3000))
         => cf'.state = "fleeing"]_behVars

\* an update turned such a creature to fleeing
C7_Witness ==
    /\ op = "update" /\ cf.flightiness = U /\ player.running
    /\ cf.state = "fleeing" /\ cf.stateTimer = 0 /\ cf.previousState = "idle"

\* C8: an update in which an idle creature of tiredness 1.0 chooses its next
\* behaviour (idleTimer restarts, nextWanderTime is drawn anew) leaves it resting
C8_TiredChoosesResting ==
    [][(/\ op' = "update" /\ cf.state = "idle" /\ cf.tiredness = U
        /\ cf'.idleTimer = 0 /\ cf'.nextWanderTime # cf.nextWanderTime)
         => cf'.state = "resting"]_behVars

\* such a creature chose, and rests
C8_Witness ==
    /\ op = "update" /\ cf.tiredness = U /\ cf.idleTimer = 0
    /\ cf.state = "resting" /\ cf.stateTimer = 0 /\ cf.previousState = "idle"

\* the distance between the creature and its peer, and the creature and the ball
PeerDist(ph) == Length(ph.pos[1] - ph.other[1], ph.pos[2] - ph.other[2])
BallDist(ph) == Length(ph.ball[1] - ph.pos[1], ph.ball[2] - ph.pos[2])
PeerOverlap(ph) ==
    /\ Within(ph.pos[1] - ph.other[1], ph.pos[2] - ph.other[2], 2 * sheepRadius)
    /\ ph.pos # ph.other
OnBounds(ph) == Abs(ph.pos[1]) = bounds \/ Abs(ph.pos[2]) = bounds

C6_InBoundsAfterUpdate ==
    (phys.pc = "state" /\ op = "handleMossBallCollision") =>
        Abs(phys.pos[1]) <= bounds /\ Abs(phys.pos[2]) <= bounds

\* C10 as stated: the collision with a ball leaves the creature's position
\* and velocity as they were
C10_CreatureUnmoved ==
    [][(phys.pc = "balls" /\ phys'.pc = "state") =>
         phys'.pos = phys.pos /\ phys'.vel = phys.vel]_behVars

\* C10, amended: a collision pushes the ball away from the creature and the
\* creature back from the ball, by 30% of the overlap and with a velocity
\* change against the direction of the ball; without a collision neither changes
C10_BothPushed ==
    [][(phys.pc = "balls" /\ phys'.pc = "state") =>
         LET dx == phys.ball[1] - phys.pos[1]
             dz == phys.ball[2] - phys.pos[2]
             overlap == ballSheepRadius + ballRadius - BallDist(phys)
         IN IF ballHit(phys)
            THEN /\ phys'.ball = phys.ball
                 /\ (phys'.ballVel[1] - phys.ballVel[1]) * dx
                      + (phys'.ballVel[2] - phys.ballVel[2]) * dz > 0
                 /\ (phys'.vel[1] - phys.vel[1]) * dx
                      + (phys'.vel[2] - phys.vel[2]) * dz < 0
                 /\ BallDist(phys') >= BallDist(phys) + (overlap * 3) \div 10 - 3
            ELSE /\ phys'.ball = phys.ball /\ phys'.ballVel = phys.ballVel
                 /\ phys'.pos = phys.pos /\ phys'.vel = phys.vel]_behVars

\* a ball was hit: it has a velocity
C10_Witness ==
    phys.pc = "state" /\ op = "handleMossBallCollision" /\ phys.ballVel # <<0, 0>>

\* distances on the ground plane between the source, the creature where it
\* stood when called, and the target
SourceToCreature ==
    Length3(<<call.source[1] - call.position[1], 0, call.source[3] - call.position[3]>>)
SourceToTarget ==
    Length3(<<call.source[1] - call.target[1], 0, call.source[3] - call.target[3]>>)
TargetToCreature ==
    Length3(<<call.target[1] - call.position[1], 0, call.target[3] - call.position[3]>>)
CalledArrived == call.pc = "arrived" /\ cf.state = "called"

\* C9 as stated: the target is at the comfort distance from the source, on
\* the segment from the source to where the creature stood (to 0.05 units)
C9_TargetBetween ==
    CalledArrived =>
        /\ Abs(SourceToTarget - comfortDistance) <= 50
        /\ SourceToTarget + TargetToCreature <= SourceToCreature + 50

\* C9, amended: the target is on the ray from the source through where the
\* creature stood, at most the comfort distance from the source and exactly
\* that far when the two are level and apart; it is between them only when the
\* creature stood farther from the source than that
C9_TargetTowardCreature ==
    CalledArrived =>
        /\ SourceToTarget <= comfortDistance + 3
        /\ (call.source[2] = call.position[2] /\ SourceToCreature > 0)
              => SourceToTarget >= comfortDistance - 3
        /\ Abs(TargetToCreature - Abs(SourceToCreature - SourceToTarget)) <= 3
        /\ SourceToCreature >= comfortDistance
              => SourceToTarget + TargetToCreature <= SourceToCreature + 3

\* a creature called from 2 units away got a target beyond itself
C9_Witness ==
    /\ CalledArrived /\ op = "onCalledTimeout"
    /\ SourceToCreature < comfortDistance
    /\ SourceToTarget > SourceToCreature

\* C11: a creature spawned at runtime stands at least 18 units from the
\* player and at least 5 units from every creature that was in the flock
C11_SpawnedApart ==
    game.pc = "spawned" =>
        /\ ~CloserThan(game.spawn, game.playerPosition, minDistFromPlayer)
        /\ \A sheep \in game.before : ~CloserThan(game.spawn, sheep, minDistFromSheep)

\* C12: an update that is given no player snapshot leaves playerAwareness as
\* it was and does not move the creature into fleeing
C12_NoPlayerUpdate ==
    [][(op' = "update" /\ ~player.present) =>
          /\ cf'.playerAwareness = cf.playerAwareness
          /\ (cf'.state = "fleeing" => cf.state = "fleeing")]_behVars

\* an update without a snapshot has run on a creature that had noticed the player
C12_Witness == op = "update" /\ ~player.present /\ cf.playerAwareness > 0

\* C13: a creature whose init() has completed has a mesh and the mesh is in
\* the scene; when the model failed to load the mesh is the procedural one
C13_InitialisedHasMesh ==
    game.pc = "initialised" =>
        /\ game.mesh # "null"
        /\ game.mesh \in game.scene
        /\ (game.loadFailed => game.mesh = "fallback")

\* init() has completed after a failed load
C13_Witness == game.pc = "initialised" /\ game.loadFailed

\* C14: after the interaction check the prompt is 'record-gather' near a
\* Cloudfen while the Gather is not recorded, 'pet' near a Cloudfen once it
\* is recorded (and no Bird is near), and 'record-charge' near the Bird
C14_PromptPriority ==
    (game.pc = "play" /\ op = "checkInteractions") =>
        LET near == nearbyCloudfen(game)
            nearBird == game.birdDist # NoOne /\ game.birdDist < birdRange
        IN /\ (near /\ ~game.hasGather) => game.ui.interactionType = "record-gather"
           /\ (near /\ game.hasGather /\ ~nearBird) => game.ui.interactionType = "pet"
           /\ (nearBird /\ ~near) => game.ui.interactionType = "record-charge"

\* this.personality of a creature
Personality(s) ==
    <<s.shyness, s.friendliness, s.curiosity, s.flightiness, s.laziness, s.sociability>>

\* C15: no update and no interaction handler changes any of the six
\* personality scalars
C15_PersonalityKept == [][Personality(cf') = Personality(cf)]_behVars

\* an update has sent a creature fleeing and its personality is the one the
\* constructor drew
C15_Witness ==
    /\ op = "update"
    /\ cf.state = "fleeing"
    /\ cf.stateTimer = 0
    /\ Personality(cf) = Personality(newCloudfen(0))

\* C16: with updates running and no other handler called, a creature in the
\* called state eventually leaves it
C16_CalledEnds == (cf.state = "called") ~> (cf.state # "called")

\* C17: once the game's isPetting flag is false no creature keeps isPetted
\* true (a tapped creature apart, until the callback of the tap ends it):
\* every session startPetting() opened has been closed by endPetting()
C17_SessionClosed ==
    (game.pc = "session" /\ ~game.isPetting) =>
        \A i \in Sheep : game.isPetted[i] => game.tapTimers[i] > 0

\* C18: whenever isPetted is true the creature is in petted or bliss
C18_PettedFlagState == cf.isPetted => cf.state \in {"petted", "bliss"}

\* C19 as stated: a creature is in bliss only after its happiness has been
\* above 0.8 for 2 seconds without a break
C19_BlissAfterSustained == cf.state = "bliss" => game.aboveFor >= 2000

\* C19: a petted creature enters bliss only in an update that finds it more
\* than 2 seconds in the petted state, still petted, with happiness above 0.8
C19_BlissAfterTimer ==
    [][(cf.state = "petted" /\ cf'.state = "bliss") =>
          /\ cf.stateTimer + Dt > 2000
          /\ cf.isPetted
          /\ cf'.happiness > 8000]_behVars

\* bliss reached by a creature whose happiness had been above 0.8 for less
\* than 2 seconds
C19_Witness == op = "update" /\ cf.state = "bliss" /\ game.aboveFor < 2000

\* C20 as stated: a creature answers a vocalization only if it is a valid
\* peer (not sleeping, fleeing, petted or in bliss) when the callback fires
C20_RespondsOnlyIfValid ==
    (op = "respondVocalize" /\ game.isVocalizing) => validPeer(cf)

\* C20: a creature answers a vocalization only if it was a valid peer when
\* the vocalization was made and it is not sleeping when the callback fires
C20_RespondsIfHeardValidAndAwake ==
    (op = "respondVocalize" /\ game.isVocalizing) =>
        /\ cf.state # "sleeping"
        /\ game.heardIn \notin {"sleeping", "fleeing", "petted", "bliss"}

\* an answer from a creature that came to be petted after the vocalization
C20_Witness ==
    /\ op = "respondVocalize"
    /\ game.isVocalizing
    /\ cf.state = "petted"
    /\ game.heardIn = "idle"

\* C21 as stated: an update of a sleeping creature ends its sleep whenever
\* the player is within 2 units or the creature is hovered
C21_WakesNearOrHovered ==
    [][(op' = "update" /\ cf.state = "sleeping"
          /\ ((player.present /\ Dist3(player) < 2000) \/ cf.isHovered))
       => cf'.state # "sleeping"]_behVars

\* C21: an update of a sleeping creature makes it curious and stood up when
\* the player's snapshot is under 2 units away, or under 3 units away with
\* the creature hovered
C21_WakesNearOrHoveredNear ==
    [][(op' = "update" /\ cf.state = "sleeping" /\ player.present
          /\ (Dist3(player) < 2000 \/ (Dist3(player) < 3000 /\ cf.isHovered)))
       => (cf'.state = "curious" /\ ~cf'.isLyingDown)]_behVars

\* a hovered sleeper woken by a player between 2 and 3 units away
C21_Witness ==
    /\ op = "update"
    /\ cf.state = "curious"
    /\ cf.previousState = "sleeping"
    /\ cf.isHovered
    /\ Dist3(player) >= 2000

\* C22 as stated: a sleeping or resting creature whose flightiness roll is
\* certain to succeed is fleeing after an update with the player running
\* inside the flee threshold
C22_LyingCreatureFlees ==
    [][(op' = "update" /\ cf.state \in {"sleeping", "resting"}
          /\ cf.flightiness = U /\ player.present /\ player.running
          /\ HDist(player) < fleeThreshold /\ HDist(player) > 0)
       => cf'.state = "fleeing"]_behVars

\* C22: a resting creature whose flightiness roll is certain to succeed is
\* fleeing and stood up after an update with the player running inside the
\* flee threshold; a sleeping creature is never sent fleeing by an update
C22_RestingFleesSleepingNot ==
    [][(op' = "update" /\ player.present /\ player.running
          /\ HDist(player) < fleeThreshold /\ HDist(player) > 0)
       => /\ (cf.state = "resting" /\ cf.flightiness = U)
               => (cf'.state = "fleeing" /\ ~cf'.isLyingDown)
          /\ cf.state = "sleeping" => cf'.state # "fleeing"]_behVars

\* a creature that was lying down, resting, has fled
C22_Witness ==
    /\ op = "update"
    /\ cf.state = "fleeing"
    /\ cf.previousState = "resting"
    /\ cf.stateTimer = 0
    /\ ~cf.isLyingDown
    /\ player.running

\* C23: when an update times a social episode out to idle or grazing, more
\* than 4 s and at most 7 s plus one tick of update time have passed since
\* the creature entered social
C23_SocialEpisodeLength ==
    [][(op' = "update" /\ cf.state = "social" /\ cf.hasSocialTarget
          /\ cf'.state \in {"idle", "grazing"} /\ cf'.previousState = "social")
       => (cf.stateTimer + Dt > 4000 /\ cf.stateTimer + Dt <= 7000 + Dt)]_behVars

\* C24: while the fixed duration of the most recent firing of head-shake,
\* ground-paw, sniff or vocalize has not run out, the behaviour's flag is true
C24_FlagHeldForDuration ==
    \A f \in Behaviours : game.due[f] > 0 => game.flag[f]

\* C25: a creature is lying down only while its state is resting or sleeping
C25_LyingOnlyAtRest ==
    cf.isLyingDown => cf.state \in {"resting", "sleeping"}

\* C26: a creature found fleeing has been fleeing for at most 3 s of update
\* time; an update of a fleeing creature either leaves it fleeing with its
\* stateTimer one tick on, flee trigger or not, or leaves it idle
C26_FleeingBounded ==
    [][/\ cf'.state = "fleeing" => cf'.stateTimer <= 3000
       /\ (op' = "update" /\ cf.state = "fleeing")
            => \/ cf'.state = "fleeing" /\ cf'.stateTimer = cf.stateTimer + Dt
               \/ cf'.state = "idle" /\ cf'.previousState = "fleeing"]_behVars

\* a flee trigger came again 1.95 s into a flight and set a new target; the
\* flight's timer went on
C26_Witness ==
    /\ op = "update"
    /\ cf.state = "fleeing"
    /\ cf.stateTimer = 2050
    /\ cf.target > 5000
    /\ player.running

\* C27: the flock never has more than maxSheep creatures, at most one spawn
\* is in flight, and a spawn is in flight only below the cap
C27_FlockWithinCap ==
    /\ game.flock <= maxSheep
    /\ game.inflight <= 1
    /\ game.inflight = 1 => (game.isSpawningSheep /\ game.flock < maxSheep)

\* the last spawn has landed, the flock is at the cap and a frame has run
\* without starting another
C27_Witness ==
    /\ op = "updateSheepSpawning"
    /\ game.flock = maxSheep
    /\ game.totalSpawned >= 15
    /\ game.inflight = 0

\* C28: after a frame of the sound system that found the left button
\* released, no creature is in the gathering state
C28_GatherEndsOnRelease ==
    (op = "soundUpdate" /\ ~game.leftButton) => game.cloudfen.state # "gathering"

\* C29: one press of the left button triggers at most one charge
C29_OneChargePerPress ==
    game.charges <= 1

\* C30: while nothing has pushed the moss ball, the exit is blocked, not
\* open, and victory has not been triggered
C30_ExitBlockedUntilPushed ==
    ~game.hasBeenPushed
        => (game.isExitBlocked /\ ~game.isExitOpen /\ ~game.victoryTriggered)

====
